---- MODULE Spec2Model ----
(***************************************************************************)
(* Register maps of the ESP32-C6 USB-Serial-JTAG controller                *)
(* (USB_SERIAL_JTAG_ESP32-C6_LIB.h) and of the RP2040 bus-fabric module    *)
(* (c.h, "BUSCTRL_LIB.h"), as a state machine.                             *)
(*                                                                         *)
(* Two machines share the tables of this module:                           *)
(*   LayoutSpec  the C compiler laying out one declared type: the bit      *)
(*               fields of a register union, or the members of a module    *)
(*               structure, one declaration per step;                      *)
(*   Spec        software accessing one register through the accessor      *)
(*               macros and the bindings, and the hardware answering each  *)
(*               bus transaction by the access discipline the field        *)
(*               comments document (RW, RO, WT, WC, R/WTC/SS).             *)
(*                                                                         *)
(* The hardware is not part of the headers; what the model makes it do is  *)
(* what their comments say: a field keeps a written value only where it is *)
(* documented read/write; reserved fields and unnamed padding ("Non        *)
(* implemented bits") hold no written value; a counter is cleared by any   *)
(* write; the XOR, SET and CLR blocks of the bus fabric combine the        *)
(* written word with the register in the one write transaction.  A         *)
(* bit-field assignment is the load, change and store of the whole word,   *)
(* taken as one step of the context that makes it.                         *)
(*                                                                         *)
(* A 32-bit word is the set of the positions of its 1 bits, bit 0 the      *)
(* least significant: 0x00000018 is {3, 4}.  A hexadecimal literal of the  *)
(* source is written as the tuple of its digits, most significant first.   *)
(***************************************************************************)
EXTENDS Integers, Sequences, FiniteSets, TLC

VARIABLES
  unit,    \* layout: the type being laid out ("idle" in Spec)
  idx,     \* layout: how many of its declarations are placed
  pos,     \* layout: first free bit (register type) or byte (module structure)
  offs,    \* layout: the offsets given to the declarations placed so far
  mem,     \* access: the word held by each register of both modules
  focus,   \* access: the register this run accesses ("none" in LayoutSpec)
  trace,   \* access: the latest accesses, oldest first
  steps,   \* access: how many accesses the run has made
  arb      \* arbitration: the priority levels each bus arbiter has registered

vars == <<unit, idx, pos, offs, mem, focus, trace, steps, arb>>

(***************************************************************************)
(* Words                                                                   *)
(***************************************************************************)

\* uint32_t: the width of WORD and of every bit-field's storage unit
WordBits == 32

BitIdx == 0 .. (WordBits - 1)

RECURSIVE Pow2(_)
Pow2(n) == IF n = 0 THEN 1 ELSE 2 * Pow2(n - 1)

\* The word a hexadecimal literal denotes: digit k (from the left) of an
\* n-digit literal holds bits 4*(n-k) .. 4*(n-k)+3.
Hex(d) ==
  { 4 * (Len(d) - kb[1]) + kb[2] :
      kb \in { x \in (1 .. Len(d)) \X (0 .. 3) : (d[x[1]] \div Pow2(x[2])) % 2 = 1 } }

\* The number a hexadecimal literal denotes (addresses and byte offsets,
\* all below 2^31).
RECURSIVE HexVal(_)
HexVal(d) ==
  IF d = <<>> THEN 0 ELSE 16 * HexVal(SubSeq(d, 1, Len(d) - 1)) + d[Len(d)]

\* The number a word denotes, for words below 2^31.
RECURSIVE ToNat(_)
ToNat(w) ==
  IF w = {} THEN 0
  ELSE LET b == CHOOSE x \in w : TRUE IN Pow2(b) + ToNat(w \ {b})

\* One declared bit-field: its name ("" when unnamed), its declared width,
\* the bit range its comment documents (<<>> when the comment gives none)
\* and the access discipline its comment documents ("RSV" for reserved and
\* unnamed padding).
F(n, w, doc, a) == [name |-> n, width |-> w, doc |-> doc, acc |-> a]

\* One declared member of a module structure: name, type, array length
\* (1 for a scalar), volatile qualifier, and the byte offset its comment
\* documents as hexadecimal digits (<<>> when the comment gives none; the
\* first offset for a documented range).
M(n, t, c, v, doc) == [name |-> n, type |-> t, count |-> c, vol |-> v, doc |-> doc]

\* One named constant (#define k...): its name, the field its comment scopes
\* it to, and its value.
K(n, f, v) == [name |-> n, field |-> f, value |-> v]

\* The word of a small number (the named constants are all below 2^8)
Word(n) == { i \in 0 .. 7 : (n \div Pow2(i)) % 2 = 1 }

(***************************************************************************)
(* Bus-fabric register types, masks and reset values (c.h)                 *)
(***************************************************************************)

\* Mutant: the unnamed padding after PROC0 left out
Mut_priority_NoPadding ==
  <<
    F("PROC0", 1, <<>>, "RW"),
    F("PROC1", 1, <<>>, "RW"),
    F("", 3, <<>>, "RSV"),
    F("DMA_R", 1, <<>>, "RW"),
    F("", 3, <<>>, "RSV"),
    F("DMA_W", 1, <<>>, "RW"),
    F("", 22, <<>>, "RSV")
  >>

\* src/c.h:70-82
__busctrl_priority_t ==
  <<
    F("PROC0", 1, <<>>, "RW"),
    F("", 3, <<>>, "RSV"),
    F("PROC1", 1, <<>>, "RW"),
    F("", 3, <<>>, "RSV"),
    F("DMA_R", 1, <<>>, "RW"),
    F("", 3, <<>>, "RSV"),
    F("DMA_W", 1, <<>>, "RW"),
    F("", 19, <<>>, "RSV")
  >>

\* src/c.h:115-121
__busctrl_priority_ack_t ==
  <<
    F("ACK", 1, <<>>, "RO"),
    F("reserved0", 31, <<>>, "RSV")
  >>

\* Mutant: the counter value as a read/write field
Mut_perfctrn_ReadWrite ==
  <<
    F("VALUE", 24, <<>>, "RW"),
    F("reserved0", 8, <<>>, "RSV")
  >>

\* src/c.h:149-155
__busctrl_perfctrn_t ==
  <<
    F("VALUE", 24, <<>>, "WC"),
    F("reserved0", 8, <<>>, "RSV")
  >>

\* src/c.h:179-185
__busctrl_perfseln_t ==
  <<
    F("VALUE", 5, <<>>, "RW"),
    F("reserved0", 27, <<>>, "RSV")
  >>

\* Mutant: the mask of PROC0 with bit 4, the bit of PROC1
Mut_PROC0_Bit4 == Hex(<<0,0,0,0,0,0,1,0>>)

\* src/c.h:96
kBUSCTRL_LOW_PRIORITY == 0

\* Mutant: the high priority with the value of the low priority
Mut_HIGH_PRIORITY_AsLow == kBUSCTRL_LOW_PRIORITY

\* src/c.h:97
kBUSCTRL_HIGH_PRIORITY == 1

\* src/c.h:133
kBUSCTRL_ACK_OK == 1

\* src/c.h:197-216, the event selectors of PERFSEL N
kBUSCTRL_SEL ==
  {
    K("kBUSCTRL_SEL_APB_CONTESTED", "VALUE", HexVal(<<0,0>>)),
    K("kBUSCTRL_SEL_APB", "VALUE", HexVal(<<0,1>>)),
    K("kBUSCTRL_SEL_FASTPERI_CONTESTED", "VALUE", HexVal(<<0,2>>)),
    K("kBUSCTRL_SEL_FASTPERI", "VALUE", HexVal(<<0,3>>)),
    K("kBUSCTRL_SEL_SRAM5_CONTESTED", "VALUE", HexVal(<<0,4>>)),
    K("kBUSCTRL_SEL_SRAM5", "VALUE", HexVal(<<0,5>>)),
    K("kBUSCTRL_SEL_SRAM4_CONTESTED", "VALUE", HexVal(<<0,6>>)),
    K("kBUSCTRL_SEL_SRAM4", "VALUE", HexVal(<<0,7>>)),
    K("kBUSCTRL_SEL_SRAM3_CONTESTED", "VALUE", HexVal(<<0,8>>)),
    K("kBUSCTRL_SEL_SRAM3", "VALUE", HexVal(<<0,9>>)),
    K("kBUSCTRL_SEL_SRAM2_CONTESTED", "VALUE", HexVal(<<0,10>>)),
    K("kBUSCTRL_SEL_SRAM2", "VALUE", HexVal(<<0,11>>)),
    K("kBUSCTRL_SEL_SRAM1_CONTESTED", "VALUE", HexVal(<<0,12>>)),
    K("kBUSCTRL_SEL_SRAM1", "VALUE", HexVal(<<0,13>>)),
    K("kBUSCTRL_SEL_SRAM0_CONTESTED", "VALUE", HexVal(<<0,14>>)),
    K("kBUSCTRL_SEL_SRAM0", "VALUE", HexVal(<<0,15>>)),
    K("kBUSCTRL_SEL_XIP_CONTESTED", "VALUE", HexVal(<<1,0>>)),
    K("kBUSCTRL_SEL_XIP", "VALUE", HexVal(<<1,1>>)),
    K("kBUSCTRL_SEL_ROM_CONTESTED", "VALUE", HexVal(<<1,2>>)),
    K("kBUSCTRL_SEL_ROM", "VALUE", HexVal(<<1,2>>))
  }

\* Mutant: the mask of PROC1 on bit 5, a reserved bit
Mut_PROC1_Bit5 == Hex(<<0,0,0,0,0,0,2,0>>)

\* Mutant: the mask of DMA_R with the bit of PROC1 as well
Mut_DMA_R_WithProc1 == Hex(<<0,0,0,0,0,1,1,0>>)

\* src/c.h:87-91
mBUSCTRL_PROC0 == Hex(<<0,0,0,0,0,0,0,1>>)
mBUSCTRL_PROC1 == Hex(<<0,0,0,0,0,0,1,0>>)
mBUSCTRL_DMA_R == Hex(<<0,0,0,0,0,1,0,0>>)
\* Mutant: the mask of DMA_W a copy of the mask of DMA_R
Mut_DMA_W_AsDMA_R == Hex(<<0,0,0,0,0,1,0,0>>)
mBUSCTRL_DMA_W == Hex(<<0,0,0,0,1,0,0,0>>)
mBUSCTRL_PRIORITY_RESET == Hex(<<0,0,0,0,0,0,0,0>>)

\* src/c.h:127-128
mBUSCTRL_ACK == Hex(<<0,0,0,0,0,0,0,1>>)
mBUSCTRL_PRIORITY_ACK_RESET == Hex(<<0,0,0,0,0,0,0,0>>)

\* src/c.h:160-161
mBUSCTRL_COUNTER_VALUE == Hex(<<0,0,15,15,15,15,15,15>>)
mBUSCTRL_PERFCTRN_RESET == Hex(<<0,0,0,0,0,0,0,0>>)

\* src/c.h:191-192
mBUSCTRL_SELECTOR_VALUE == Hex(<<0,0,0,0,0,0,1,15>>)
mBUSCTRL_PERFSELN_RESET == Hex(<<0,0,0,0,0,0,1,15>>)

\* Mutant: PERFSEL0 and PERFCTR1 declared in the other order
Mut_busctrl_t_Swapped ==
  <<
    M("PRIORITY",     "__busctrl_priority_t",     1, TRUE, <<>>),
    M("PRIORITY_ACK", "__busctrl_priority_ack_t", 1, TRUE, <<>>),
    M("PERFCTR0",     "__busctrl_perfctrn_t",     1, TRUE, <<>>),
    M("PERFCTR1",     "__busctrl_perfctrn_t",     1, TRUE, <<>>),
    M("PERFSEL0",     "__busctrl_perfseln_t",     1, TRUE, <<>>),
    M("PERFSEL1",     "__busctrl_perfseln_t",     1, TRUE, <<>>),
    M("PERFCTR2",     "__busctrl_perfctrn_t",     1, TRUE, <<>>),
    M("PERFSEL2",     "__busctrl_perfseln_t",     1, TRUE, <<>>),
    M("PERFCTR3",     "__busctrl_perfctrn_t",     1, TRUE, <<>>),
    M("PERFSEL3",     "__busctrl_perfseln_t",     1, TRUE, <<>>)
  >>

\* Mutant: PRIORITY declared without the volatile qualifier
Mut_busctrl_t_PlainPriority ==
  <<
    M("PRIORITY",     "__busctrl_priority_t",     1, FALSE, <<>>),
    M("PRIORITY_ACK", "__busctrl_priority_ack_t", 1, TRUE, <<>>),
    M("PERFCTR0",     "__busctrl_perfctrn_t",     1, TRUE, <<>>),
    M("PERFSEL0",     "__busctrl_perfseln_t",     1, TRUE, <<>>),
    M("PERFCTR1",     "__busctrl_perfctrn_t",     1, TRUE, <<>>),
    M("PERFSEL1",     "__busctrl_perfseln_t",     1, TRUE, <<>>),
    M("PERFCTR2",     "__busctrl_perfctrn_t",     1, TRUE, <<>>),
    M("PERFSEL2",     "__busctrl_perfseln_t",     1, TRUE, <<>>),
    M("PERFCTR3",     "__busctrl_perfctrn_t",     1, TRUE, <<>>),
    M("PERFSEL3",     "__busctrl_perfseln_t",     1, TRUE, <<>>)
  >>

\* src/c.h:225-236
__busctrl_t ==
  <<
    M("PRIORITY",     "__busctrl_priority_t",     1, TRUE, <<>>),
    M("PRIORITY_ACK", "__busctrl_priority_ack_t", 1, TRUE, <<>>),
    M("PERFCTR0",     "__busctrl_perfctrn_t",     1, TRUE, <<>>),
    M("PERFSEL0",     "__busctrl_perfseln_t",     1, TRUE, <<>>),
    M("PERFCTR1",     "__busctrl_perfctrn_t",     1, TRUE, <<>>),
    M("PERFSEL1",     "__busctrl_perfseln_t",     1, TRUE, <<>>),
    M("PERFCTR2",     "__busctrl_perfctrn_t",     1, TRUE, <<>>),
    M("PERFSEL2",     "__busctrl_perfseln_t",     1, TRUE, <<>>),
    M("PERFCTR3",     "__busctrl_perfctrn_t",     1, TRUE, <<>>),
    M("PERFSEL3",     "__busctrl_perfseln_t",     1, TRUE, <<>>)
  >>

(***************************************************************************)
(* USB-Serial-JTAG register types, masks and reset values                  *)
(* (USB_SERIAL_JTAG_ESP32-C6_LIB.h).  The fields of                        *)
(* __usbSerialJtag_outEpxStReg_t and of __usbSerialJtag_dateReg_t carry no *)
(* access discipline in their declarations; it is taken from the comments  *)
(* of their mask constants ("Get (RO)").                                   *)
(***************************************************************************)

\* src/USB_SERIAL_JTAG_ESP32-C6_LIB.h:58-64
__usbSerialJtag_ep1Reg_t ==
  <<
    F("RDWR_BYTE", 8, <<0, 7>>, "R/W"),
    F("RESERVED", 24, <<8, 31>>, "RSV")
  >>

\* src/USB_SERIAL_JTAG_ESP32-C6_LIB.h:69-69, the constants mUSBSERIALJTAG_EP1REG_<FIELD>
mUSBSERIALJTAG_EP1REG ==
  [ RDWR_BYTE |-> Hex(<<0,0,0,0,0,0,15,15>>) ]

\* src/USB_SERIAL_JTAG_ESP32-C6_LIB.h:70
mUSBSERIALJTAG_EP1REG_RESET == Hex(<<0,0,0,0,0,0,0,0>>)

\* src/USB_SERIAL_JTAG_ESP32-C6_LIB.h:77-85
__usbSerialJtag_ep1ConfReg_t ==
  <<
    F("WR_DONE", 1, <<0, 0>>, "WT"),
    F("SERIAL_IN_EP_DATA_FREE", 1, <<1, 1>>, "RO"),
    F("SERIAL_OUT_EP_DATA_AVAIL", 1, <<2, 2>>, "RO"),
    F("RESERVED", 29, <<3, 31>>, "RSV")
  >>

\* src/USB_SERIAL_JTAG_ESP32-C6_LIB.h:90-92, the constants mUSBSERIALJTAG_EP1CONFREG_<FIELD>
mUSBSERIALJTAG_EP1CONFREG ==
  [ WR_DONE |-> Hex(<<0,0,0,0,0,0,0,1>>),
    SERIAL_IN_EP_DATA_FREE |-> Hex(<<0,0,0,0,0,0,0,2>>),
    SERIAL_OUT_EP_DATA_AVAIL |-> Hex(<<0,0,0,0,0,0,0,4>>) ]

\* Mutant: the reset value of the EP1 configuration register with WR_DONE set
Mut_EP1CONF_RESET_WrDone == Hex(<<0,0,0,0,0,0,0,3>>)

\* src/USB_SERIAL_JTAG_ESP32-C6_LIB.h:93
mUSBSERIALJTAG_EP1CONFREG_RESET == Hex(<<0,0,0,0,0,0,0,2>>)

\* src/USB_SERIAL_JTAG_ESP32-C6_LIB.h:100-119
__usbSerialJtag_conf0Reg_t ==
  <<
    F("PHY_SEL", 1, <<0, 0>>, "R/W"),
    F("EXCHG_PINS_OVERRIDE", 1, <<1, 1>>, "R/W"),
    F("EXCHG_PINS", 1, <<2, 2>>, "R/W"),
    F("VREFH", 2, <<3, 4>>, "R/W"),
    F("VREFL", 2, <<5, 6>>, "R/W"),
    F("VREF_OVERRIDE", 1, <<7, 7>>, "R/W"),
    F("PAD_PULL_OVERRIDE", 1, <<8, 8>>, "R/W"),
    F("DP_PULLUP", 1, <<9, 9>>, "R/W"),
    F("DP_PULLDOWN", 1, <<10, 10>>, "R/W"),
    F("DM_PULLUP", 1, <<11, 11>>, "R/W"),
    F("DM_PULLDOWN", 1, <<12, 12>>, "R/W"),
    F("PULLUP_VALUE", 1, <<13, 13>>, "R/W"),
    F("USB_PAD_ENABLE", 1, <<14, 14>>, "R/W"),
    F("USB_JTAG_BRIDGE_EN", 1, <<15, 15>>, "R/W"),
    F("RESERVED", 16, <<16, 31>>, "RSV")
  >>

\* src/USB_SERIAL_JTAG_ESP32-C6_LIB.h:142-155
kUSBSERIALJTAG_CONF0REG ==
  {
    K("kUSBSERIALJTAG_CONF0REG_PHY_SEL_InternalPHY", "PHY_SEL", 0),
    K("kUSBSERIALJTAG_CONF0REG_PHY_SEL_ExternalPHY", "PHY_SEL", 1),
    K("kUSBSERIALJTAG_CONF0REG_VREFH_1V76", "VREFH", 0),
    K("kUSBSERIALJTAG_CONF0REG_VREFH_1V84", "VREFH", 1),
    K("kUSBSERIALJTAG_CONF0REG_VREFH_1V92", "VREFH", 2),
    K("kUSBSERIALJTAG_CONF0REG_VREFH_2V00", "VREFH", 3),
    K("kUSBSERIALJTAG_CONF0REG_VREFL_0V80", "VREFL", 0),
    K("kUSBSERIALJTAG_CONF0REG_VREFL_0V88", "VREFL", 1),
    K("kUSBSERIALJTAG_CONF0REG_VREFL_0V96", "VREFL", 2),
    K("kUSBSERIALJTAG_CONF0REG_VREFL_1V04", "VREFL", 3),
    K("kUSBSERIALJTAG_CONF0REG_PULLUP_VALUE_2K2", "PULLUP_VALUE", 0),
    K("kUSBSERIALJTAG_CONF0REG_PULLUP_VALUE_1K1", "PULLUP_VALUE", 1),
    K("kUSBSERIALJTAG_CONF0REG_JTAG_BRIDGE_EN_CONNECTEC", "USB_JTAG_BRIDGE_EN", 0),
    K("kUSBSERIALJTAG_CONF0REG_JTAG_BRIDGE_EN_DISCONNECTED", "USB_JTAG_BRIDGE_EN", 1)
  }

\* src/USB_SERIAL_JTAG_ESP32-C6_LIB.h:124-137, the constants mUSBSERIALJTAG_CONF0REG_<FIELD>
mUSBSERIALJTAG_CONF0REG ==
  [ PHY_SEL |-> Hex(<<0,0,0,0,0,0,0,1>>),
    EXCHG_PINS_OVERRIDE |-> Hex(<<0,0,0,0,0,0,0,2>>),
    EXCHG_PINS |-> Hex(<<0,0,0,0,0,0,0,4>>),
    VREFH |-> Hex(<<0,0,0,0,0,0,1,8>>),
    VREFL |-> Hex(<<0,0,0,0,0,0,6,0>>),
    VREF_OVERRIDE |-> Hex(<<0,0,0,0,0,0,8,0>>),
    PAD_PULL_OVERRIDE |-> Hex(<<0,0,0,0,0,1,0,0>>),
    DP_PULLUP |-> Hex(<<0,0,0,0,0,2,0,0>>),
    DP_PULLDOWN |-> Hex(<<0,0,0,0,0,4,0,0>>),
    DM_PULLUP |-> Hex(<<0,0,0,0,0,8,0,0>>),
    DM_PULLDOWN |-> Hex(<<0,0,0,0,1,0,0,0>>),
    PULLUP_VALUE |-> Hex(<<0,0,0,0,2,0,0,0>>),
    USB_PAD_ENABLE |-> Hex(<<0,0,0,0,4,0,0,0>>),
    USB_JTAG_BRIDGE_EN |-> Hex(<<0,0,0,0,8,0,0,0>>) ]

\* Mutant: the reset value of CONF0 with bit 16, a reserved bit
Mut_CONF0_RESET_Bit16 == Hex(<<0,0,0,1,4,2,0,0>>)

\* src/USB_SERIAL_JTAG_ESP32-C6_LIB.h:138
mUSBSERIALJTAG_CONF0REG_RESET == Hex(<<0,0,0,0,4,2,0,0>>)

\* src/USB_SERIAL_JTAG_ESP32-C6_LIB.h:164-176
__usbSerialJtag_testReg_t ==
  <<
    F("TEST_ENABLE", 1, <<0, 0>>, "R/W"),
    F("TEST_USB_OE", 1, <<1, 1>>, "R/W"),
    F("TEST_TX_DP", 1, <<2, 2>>, "R/W"),
    F("TEST_TX_DM", 1, <<3, 3>>, "R/W"),
    F("TEST_RX_RCV", 1, <<4, 4>>, "RO"),
    F("TEST_RX_DP", 1, <<5, 5>>, "RO"),
    F("TEST_RX_DM", 1, <<6, 6>>, "RO"),
    F("RESERVED", 25, <<7, 31>>, "RSV")
  >>

\* src/USB_SERIAL_JTAG_ESP32-C6_LIB.h:181-187, the constants mUSBSERIALJTAG_TESTREG_<FIELD>
mUSBSERIALJTAG_TESTREG ==
  [ TEST_ENABLE |-> Hex(<<0,0,0,0,0,0,0,1>>),
    TEST_USB_OE |-> Hex(<<0,0,0,0,0,0,0,2>>),
    TEST_TX_DP |-> Hex(<<0,0,0,0,0,0,0,4>>),
    TEST_TX_DM |-> Hex(<<0,0,0,0,0,0,0,8>>),
    TEST_RX_RCV |-> Hex(<<0,0,0,0,0,0,1,0>>),
    TEST_RX_DP |-> Hex(<<0,0,0,0,0,0,2,0>>),
    TEST_RX_DM |-> Hex(<<0,0,0,0,0,0,4,0>>) ]

\* src/USB_SERIAL_JTAG_ESP32-C6_LIB.h:188
mUSBSERIALJTAG_TESTREG_RESET == Hex(<<0,0,0,0,0,0,3,0>>)

\* src/USB_SERIAL_JTAG_ESP32-C6_LIB.h:195-201
__usbSerialJtag_miscConfReg_t ==
  <<
    F("CLK_EN", 1, <<0, 0>>, "R/W"),
    F("RESERVED", 31, <<1, 31>>, "RSV")
  >>

\* src/USB_SERIAL_JTAG_ESP32-C6_LIB.h:206-206, the constants mUSBSERIALJTAG_MISCCONFREG_<FIELD>
mUSBSERIALJTAG_MISCCONFREG ==
  [ CLK_EN |-> Hex(<<0,0,0,0,0,0,0,1>>) ]

\* src/USB_SERIAL_JTAG_ESP32-C6_LIB.h:207
mUSBSERIALJTAG_MISCCONFREG_RESET == Hex(<<0,0,0,0,0,0,0,0>>)

\* src/USB_SERIAL_JTAG_ESP32-C6_LIB.h:214-221
__usbSerialJtag_memConfReg_t ==
  <<
    F("USB_MEM_PD", 1, <<0, 0>>, "R/W"),
    F("USB_MEM_CLK_EN", 1, <<1, 1>>, "R/W"),
    F("RESERVED", 30, <<2, 31>>, "RSV")
  >>

\* Mutant: the mask of USB_MEM_CLK_EN a copy of the mask of USB_MEM_PD
Mut_MEMCONFREG_Dup ==
  [ USB_MEM_PD |-> Hex(<<0,0,0,0,0,0,0,1>>),
    USB_MEM_CLK_EN |-> Hex(<<0,0,0,0,0,0,0,1>>) ]

\* src/USB_SERIAL_JTAG_ESP32-C6_LIB.h:226-227, the constants mUSBSERIALJTAG_MEMCONFREG_<FIELD>
mUSBSERIALJTAG_MEMCONFREG ==
  [ USB_MEM_PD |-> Hex(<<0,0,0,0,0,0,0,1>>),
    USB_MEM_CLK_EN |-> Hex(<<0,0,0,0,0,0,0,2>>) ]

\* src/USB_SERIAL_JTAG_ESP32-C6_LIB.h:228
mUSBSERIALJTAG_MEMCONFREG_RESET == Hex(<<0,0,0,0,0,0,0,2>>)

\* src/USB_SERIAL_JTAG_ESP32-C6_LIB.h:235-243
__usbSerialJtag_chipRstReg_t ==
  <<
    F("JTAG_RTS", 1, <<0, 0>>, "RO"),
    F("JTAG_DTR", 1, <<1, 1>>, "RO"),
    F("USB_UART_CHIP_RST_DIS", 1, <<2, 2>>, "R/W"),
    F("RESERVED", 29, <<3, 31>>, "RSV")
  >>

\* src/USB_SERIAL_JTAG_ESP32-C6_LIB.h:248-250, the constants mUSBSERIALJTAG_CHIPRSTREG_<FIELD>
mUSBSERIALJTAG_CHIPRSTREG ==
  [ JTAG_RTS |-> Hex(<<0,0,0,0,0,0,0,1>>),
    JTAG_DTR |-> Hex(<<0,0,0,0,0,0,0,2>>),
    USB_UART_CHIP_RST_DIS |-> Hex(<<0,0,0,0,0,0,0,4>>) ]

\* src/USB_SERIAL_JTAG_ESP32-C6_LIB.h:251
mUSBSERIALJTAG_CHIPRSTREG_RESET == Hex(<<0,0,0,0,0,0,0,0>>)

\* src/USB_SERIAL_JTAG_ESP32-C6_LIB.h:258-263
__usbSerialJtag_getLineCodeW0Reg_t ==
  <<
    F("GET_LINE_CODE_W0_REG", 32, <<0, 31>>, "R/W")
  >>

\* src/USB_SERIAL_JTAG_ESP32-C6_LIB.h:268-268, the constants mUSBSERIALJTAG_GETLINECODEW0REG_<FIELD>
mUSBSERIALJTAG_GETLINECODEW0REG ==
  [ GET_LINE_CODE_W0_REG |-> Hex(<<15,15,15,15,15,15,15,15>>) ]

\* src/USB_SERIAL_JTAG_ESP32-C6_LIB.h:269
mUSBSERIALJTAG_GETLINECODEW0REG_RESET == Hex(<<0,0,0,0,0,0,0,0>>)

\* src/USB_SERIAL_JTAG_ESP32-C6_LIB.h:276-284
__usbSerialJtag_getLineCodeW1Reg_t ==
  <<
    F("GET_BDATA_BITS", 8, <<0, 7>>, "R/W"),
    F("GET_BPARITY_TYPE", 8, <<8, 15>>, "R/W"),
    F("GET_BCHAR_FORMAT", 8, <<16, 23>>, "R/W"),
    F("RESERVED", 8, <<24, 31>>, "RSV")
  >>

\* src/USB_SERIAL_JTAG_ESP32-C6_LIB.h:289-291, the constants mUSBSERIALJTAG_GETLINECODEW1REG_<FIELD>
mUSBSERIALJTAG_GETLINECODEW1REG ==
  [ GET_BDATA_BITS |-> Hex(<<0,0,0,0,0,0,15,15>>),
    GET_BPARITY_TYPE |-> Hex(<<0,0,0,0,15,15,0,0>>),
    GET_BCHAR_FORMAT |-> Hex(<<0,0,15,15,0,0,0,0>>) ]

\* src/USB_SERIAL_JTAG_ESP32-C6_LIB.h:292
mUSBSERIALJTAG_GETLINECODEW1REG_RESET == Hex(<<0,0,0,0,0,0,0,0>>)

\* src/USB_SERIAL_JTAG_ESP32-C6_LIB.h:299-305
__usbSerialJtag_configUpdateReg_t ==
  <<
    F("CONFIG_UPDATE", 1, <<0, 0>>, "WT"),
    F("RESERVED", 31, <<1, 31>>, "RSV")
  >>

\* src/USB_SERIAL_JTAG_ESP32-C6_LIB.h:310-310, the constants mUSBSERIALJTAG_CONFIGUPDATEREG_<FIELD>
mUSBSERIALJTAG_CONFIGUPDATEREG ==
  [ CONFIG_UPDATE |-> Hex(<<0,0,0,0,0,0,0,1>>) ]

\* src/USB_SERIAL_JTAG_ESP32-C6_LIB.h:311
mUSBSERIALJTAG_CONFIGUPDATEREG_RESET == Hex(<<0,0,0,0,0,0,0,0>>)

\* src/USB_SERIAL_JTAG_ESP32-C6_LIB.h:318-329
__usbSerialJtag_serAfifoConficReg_t ==
  <<
    F("SERIAL_IN_AFIFO_RESET_WR", 1, <<0, 0>>, "R/W"),
    F("SERIAL_IN_AFIFO_RESET_RD", 1, <<1, 1>>, "R/W"),
    F("SERIAL_OUT_AFIFO_RESET_WR", 1, <<2, 2>>, "R/W"),
    F("SERIAL_OUT_AFIFO_RESET_RD", 1, <<3, 3>>, "R/W"),
    F("SERIAL_OUT_AFIFO_REMPTY", 1, <<4, 4>>, "RO"),
    F("SERIAL_IN_AFIFO_WFULL", 1, <<5, 5>>, "RO"),
    F("RESERVED", 26, <<6, 31>>, "RSV")
  >>

\* src/USB_SERIAL_JTAG_ESP32-C6_LIB.h:334-339, the constants mUSBSERIALJTAG_SERAFIFOCONFICREG_<FIELD>
mUSBSERIALJTAG_SERAFIFOCONFICREG ==
  [ SERIAL_IN_AFIFO_RESET_WR |-> Hex(<<0,0,0,0,0,0,0,1>>),
    SERIAL_IN_AFIFO_RESET_RD |-> Hex(<<0,0,0,0,0,0,0,2>>),
    SERIAL_OUT_AFIFO_RESET_WR |-> Hex(<<0,0,0,0,0,0,0,4>>),
    SERIAL_OUT_AFIFO_RESET_RD |-> Hex(<<0,0,0,0,0,0,0,8>>),
    SERIAL_OUT_AFIFO_REMPTY |-> Hex(<<0,0,0,0,0,0,1,0>>),
    SERIAL_IN_AFIFO_WFULL |-> Hex(<<0,0,0,0,0,0,2,0>>) ]

\* src/USB_SERIAL_JTAG_ESP32-C6_LIB.h:340
mUSBSERIALJTAG_SERAFIFOCONFICREG_RESET == Hex(<<0,0,0,0,0,0,1,0>>)

\* src/USB_SERIAL_JTAG_ESP32-C6_LIB.h:361-382
__usbSerialJtag_intStatusReg_t ==
  <<
    F("IN_FLUSH_INT", 1, <<0, 0>>, "R/WTC/SS"),
    F("SOF_INT", 1, <<1, 1>>, "R/WTC/SS"),
    F("OUT_RECV_PKT_INT", 1, <<2, 2>>, "R/WTC/SS"),
    F("IN_EMPTY_INT", 1, <<3, 3>>, "R/WTC/SS"),
    F("PID_ERR_INT", 1, <<4, 4>>, "R/WTC/SS"),
    F("CRC5_ERR_INT", 1, <<5, 5>>, "R/WTC/SS"),
    F("CRC16_ERR_INT", 1, <<6, 6>>, "R/WTC/SS"),
    F("STUFF_ERR_INT", 1, <<7, 7>>, "R/WTC/SS"),
    F("IN_TOKEN_REC_IN_EP1_INT", 1, <<8, 8>>, "R/WTC/SS"),
    F("USB_BUS_RESET_INT", 1, <<9, 9>>, "R/WTC/SS"),
    F("OUT_EP1_ZERO_PAYLOAD_INT", 1, <<10, 10>>, "R/WTC/SS"),
    F("OUT_EP2_ZERO_PAYLOAD_INT", 1, <<11, 11>>, "R/WTC/SS"),
    F("RTS_CHG_INT", 1, <<12, 12>>, "R/WTC/SS"),
    F("DTR_CHG_INT", 1, <<13, 13>>, "R/WTC/SS"),
    F("GET_LINE_CODE_INT", 1, <<14, 14>>, "R/WTC/SS"),
    F("SET_LINE_CODE_INT", 1, <<15, 15>>, "R/WTC/SS"),
    F("RESERVED", 16, <<16, 31>>, "RSV")
  >>

\* src/USB_SERIAL_JTAG_ESP32-C6_LIB.h:387-402, the constants mUSBSERIALJTAG_INTSTATUSREG_<FIELD>
mUSBSERIALJTAG_INTSTATUSREG ==
  [ IN_FLUSH_INT |-> Hex(<<0,0,0,0,0,0,0,1>>),
    SOF_INT |-> Hex(<<0,0,0,0,0,0,0,2>>),
    OUT_RECV_PKT_INT |-> Hex(<<0,0,0,0,0,0,0,4>>),
    IN_EMPTY_INT |-> Hex(<<0,0,0,0,0,0,0,8>>),
    PID_ERR_INT |-> Hex(<<0,0,0,0,0,0,1,0>>),
    CRC5_ERR_INT |-> Hex(<<0,0,0,0,0,0,2,0>>),
    CRC16_ERR_INT |-> Hex(<<0,0,0,0,0,0,4,0>>),
    STUFF_ERR_INT |-> Hex(<<0,0,0,0,0,0,8,0>>),
    IN_TOKEN_REC_IN_EP1_INT |-> Hex(<<0,0,0,0,0,1,0,0>>),
    USB_BUS_RESET_INT |-> Hex(<<0,0,0,0,0,2,0,0>>),
    OUT_EP1_ZERO_PAYLOAD_INT |-> Hex(<<0,0,0,0,0,4,0,0>>),
    OUT_EP2_ZERO_PAYLOAD_INT |-> Hex(<<0,0,0,0,0,8,0,0>>),
    RTS_CHG_INT |-> Hex(<<0,0,0,0,1,0,0,0>>),
    DTR_CHG_INT |-> Hex(<<0,0,0,0,2,0,0,0>>),
    GET_LINE_CODE_INT |-> Hex(<<0,0,0,0,4,0,0,0>>),
    SET_LINE_CODE_INT |-> Hex(<<0,0,0,0,8,0,0,0>>) ]

\* Mutant: the RAW reset value with the bit of OUT_RECV_PKT_INT (bit 2)
Mut_RESET_RAW_Bit2 == Hex(<<0,0,0,0,0,0,0,4>>)

\* src/USB_SERIAL_JTAG_ESP32-C6_LIB.h:403
mUSBSERIALJTAG_INTSTATUSREG_RESET_RAW == Hex(<<0,0,0,0,0,0,0,8>>)

\* src/USB_SERIAL_JTAG_ESP32-C6_LIB.h:404
mUSBSERIALJTAG_INTSTATUSREG_RESET_ST == Hex(<<0,0,0,0,0,0,0,0>>)

\* src/USB_SERIAL_JTAG_ESP32-C6_LIB.h:405
mUSBSERIALJTAG_INTSTATUSREG_RESET_ENA == Hex(<<0,0,0,0,0,0,0,0>>)

\* src/USB_SERIAL_JTAG_ESP32-C6_LIB.h:406
mUSBSERIALJTAG_INTSTATUSREG_RESET_CLR == Hex(<<0,0,0,0,0,0,0,0>>)

\* src/USB_SERIAL_JTAG_ESP32-C6_LIB.h:419-432
__usbSerialJtag_jfifoStReg_t ==
  <<
    F("IN_FIFO_CNT", 2, <<0, 1>>, "RO"),
    F("IN_FIFO_EMPTY", 1, <<2, 2>>, "RO"),
    F("IN_FIFO_FULL", 1, <<3, 3>>, "RO"),
    F("OUT_FIFO_CNT", 2, <<4, 5>>, "RO"),
    F("OUT_FIFO_EMPTY", 1, <<6, 6>>, "RO"),
    F("OUT_FIFO_FULL", 1, <<7, 7>>, "RO"),
    F("IN_FIFO_RESET", 1, <<8, 8>>, "R/W"),
    F("OUT_FIFO_RESET", 1, <<9, 9>>, "R/W"),
    F("RESERVED", 22, <<10, 31>>, "RSV")
  >>

\* src/USB_SERIAL_JTAG_ESP32-C6_LIB.h:437-444, the constants mUSBSERIALJTAG_JFIFOSTREG_<FIELD>
mUSBSERIALJTAG_JFIFOSTREG ==
  [ IN_FIFO_CNT |-> Hex(<<0,0,0,0,0,0,0,3>>),
    IN_FIFO_EMPTY |-> Hex(<<0,0,0,0,0,0,0,4>>),
    IN_FIFO_FULL |-> Hex(<<0,0,0,0,0,0,0,8>>),
    OUT_FIFO_CNT |-> Hex(<<0,0,0,0,0,0,3,0>>),
    OUT_FIFO_EMPTY |-> Hex(<<0,0,0,0,0,0,4,0>>),
    OUT_FIFO_FULL |-> Hex(<<0,0,0,0,0,0,8,0>>),
    IN_FIFO_RESET |-> Hex(<<0,0,0,0,0,1,0,0>>),
    OUT_FIFO_RESET |-> Hex(<<0,0,0,0,0,2,0,0>>) ]

\* src/USB_SERIAL_JTAG_ESP32-C6_LIB.h:445
mUSBSERIALJTAG_JFIFOSTREG_RESET == Hex(<<0,0,0,0,0,0,4,4>>)

\* src/USB_SERIAL_JTAG_ESP32-C6_LIB.h:452-458
__usbSerialJtag_framNumReg_t ==
  <<
    F("SOF_FRAME_INDEX", 11, <<0, 10>>, "RO"),
    F("RESERVED", 21, <<11, 31>>, "RSV")
  >>

\* src/USB_SERIAL_JTAG_ESP32-C6_LIB.h:463-463, the constants mUSBSERIALJTAG_FRAMNUMREG_<FIELD>
mUSBSERIALJTAG_FRAMNUMREG ==
  [ SOF_FRAME_INDEX |-> Hex(<<0,0,0,0,0,7,15,15>>) ]

\* src/USB_SERIAL_JTAG_ESP32-C6_LIB.h:464
mUSBSERIALJTAG_FRAMNUMREG_RESET == Hex(<<0,0,0,0,0,0,0,0>>)

\* src/USB_SERIAL_JTAG_ESP32-C6_LIB.h:471-479
__usbSerialJtag_inEpxStReg_t ==
  <<
    F("IN_EPX_STATE", 2, <<0, 1>>, "RO"),
    F("IN_EPX_WR_ADDR", 7, <<2, 8>>, "RO"),
    F("IN_EPX_RD_ADDR", 7, <<9, 15>>, "RO"),
    F("RESERVED", 16, <<16, 31>>, "RSV")
  >>

\* src/USB_SERIAL_JTAG_ESP32-C6_LIB.h:484-486, the constants mUSBSERIALJTAG_INEPXSTREG_<FIELD>
mUSBSERIALJTAG_INEPXSTREG ==
  [ IN_EPX_STATE |-> Hex(<<0,0,0,0,0,0,0,3>>),
    IN_EPX_WR_ADDR |-> Hex(<<0,0,0,0,0,1,15,12>>),
    IN_EPX_RD_ADDR |-> Hex(<<0,0,0,0,15,14,0,0>>) ]

\* src/USB_SERIAL_JTAG_ESP32-C6_LIB.h:487
mUSBSERIALJTAG_INEPXSTREG_RESET == Hex(<<0,0,0,0,0,0,0,3>>)

\* Mutant: the reserved field one bit short (bits 23-30)
Mut_outEpxStReg_Reserved8 ==
  <<
    F("OUT_EPX_STATE", 2, <<0, 1>>, "RO"),
    F("OUT_EPX_WR_ADDR", 7, <<2, 8>>, "RO"),
    F("OUT_EPX_RD_ADDR", 7, <<9, 15>>, "RO"),
    F("EP1_REC_DATA_CNT", 7, <<16, 22>>, "RO"),
    F("RESERVED", 8, <<23, 31>>, "RSV")
  >>

\* src/USB_SERIAL_JTAG_ESP32-C6_LIB.h:494-503
__usbSerialJtag_outEpxStReg_t ==
  <<
    F("OUT_EPX_STATE", 2, <<0, 1>>, "RO"),
    F("OUT_EPX_WR_ADDR", 7, <<2, 8>>, "RO"),
    F("OUT_EPX_RD_ADDR", 7, <<9, 15>>, "RO"),
    F("EP1_REC_DATA_CNT", 7, <<16, 22>>, "RO"),
    F("RESERVED", 9, <<23, 31>>, "RSV")
  >>

\* Mutant: the mask of the 7-bit EP1_REC_DATA_CNT written for 8 bits
Mut_OUTEPXSTREG_Cnt8 ==
  [ OUT_EPX_STATE |-> Hex(<<0,0,0,0,0,0,0,3>>),
    OUT_EPX_WR_ADDR |-> Hex(<<0,0,0,0,0,1,15,12>>),
    OUT_EPX_RD_ADDR |-> Hex(<<0,0,0,0,15,14,0,0>>),
    EP1_REC_DATA_CNT |-> Hex(<<0,0,15,15,0,0,0,0>>) ]

\* src/USB_SERIAL_JTAG_ESP32-C6_LIB.h:508-511, the constants mUSBSERIALJTAG_OUTEPXSTREG_<FIELD>
mUSBSERIALJTAG_OUTEPXSTREG ==
  [ OUT_EPX_STATE |-> Hex(<<0,0,0,0,0,0,0,3>>),
    OUT_EPX_WR_ADDR |-> Hex(<<0,0,0,0,0,1,15,12>>),
    OUT_EPX_RD_ADDR |-> Hex(<<0,0,0,0,15,14,0,0>>),
    EP1_REC_DATA_CNT |-> Hex(<<0,0,7,15,0,0,0,0>>) ]

\* src/USB_SERIAL_JTAG_ESP32-C6_LIB.h:512
mUSBSERIALJTAG_OUTEPXSTREG_RESET == Hex(<<0,0,0,0,0,0,0,3>>)

\* src/USB_SERIAL_JTAG_ESP32-C6_LIB.h:519-524
__usbSerialJtag_setLineCodeW0Reg_t ==
  <<
    F("DW_DTE_RATE", 32, <<0, 31>>, "RO")
  >>

\* src/USB_SERIAL_JTAG_ESP32-C6_LIB.h:529-529, the constants mUSBSERIALJTAG_SETLINECODEW0REG_<FIELD>
mUSBSERIALJTAG_SETLINECODEW0REG ==
  [ DW_DTE_RATE |-> Hex(<<15,15,15,15,15,15,15,15>>) ]

\* src/USB_SERIAL_JTAG_ESP32-C6_LIB.h:530
mUSBSERIALJTAG_SETLINECODEW0REG_RESET == Hex(<<0,0,0,0,0,0,0,0>>)

\* src/USB_SERIAL_JTAG_ESP32-C6_LIB.h:537-545
__usbSerialJtag_setLineCodeW1Reg_t ==
  <<
    F("BCHAR_FORMAT", 8, <<0, 7>>, "RO"),
    F("BPARITY_TYPE", 8, <<8, 15>>, "RO"),
    F("BDATA_BITS", 8, <<16, 23>>, "RO"),
    F("RESERVED", 8, <<24, 31>>, "RSV")
  >>

\* src/USB_SERIAL_JTAG_ESP32-C6_LIB.h:550-552, the constants mUSBSERIALJTAG_SETLINECODEW1REG_<FIELD>
mUSBSERIALJTAG_SETLINECODEW1REG ==
  [ BCHAR_FORMAT |-> Hex(<<0,0,0,0,0,0,15,15>>),
    BPARITY_TYPE |-> Hex(<<0,0,0,0,15,15,0,0>>),
    BDATA_BITS |-> Hex(<<0,0,15,15,0,0,0,0>>) ]

\* src/USB_SERIAL_JTAG_ESP32-C6_LIB.h:553
mUSBSERIALJTAG_SETLINECODEW1REG_RESET == Hex(<<0,0,0,0,0,0,0,0>>)

\* Mutant: the reserved field declared 32 bits wide, so that BITS takes two units
Mut_busResetStReg_Reserved32 ==
  <<
    F("BUS_RESET_ST", 1, <<0, 0>>, "RO"),
    F("RESERVED", 32, <<1, 31>>, "RSV")
  >>

\* src/USB_SERIAL_JTAG_ESP32-C6_LIB.h:560-566
__usbSerialJtag_busResetStReg_t ==
  <<
    F("BUS_RESET_ST", 1, <<0, 0>>, "RO"),
    F("RESERVED", 31, <<1, 31>>, "RSV")
  >>

\* src/USB_SERIAL_JTAG_ESP32-C6_LIB.h:571-571, the constants mUSBSERIALJTAG_BUSRESETSTREG_<FIELD>
mUSBSERIALJTAG_BUSRESETSTREG ==
  [ BUS_RESET_ST |-> Hex(<<0,0,0,0,0,0,0,1>>) ]

\* src/USB_SERIAL_JTAG_ESP32-C6_LIB.h:572
mUSBSERIALJTAG_BUSRESETSTREG_RESET == Hex(<<0,0,0,0,0,0,0,1>>)

\* src/USB_SERIAL_JTAG_ESP32-C6_LIB.h:584-589
__usbSerialJtag_dateReg_t ==
  <<
    F("DATE", 32, <<0, 31>>, "RO")
  >>

\* src/USB_SERIAL_JTAG_ESP32-C6_LIB.h:594-594, the constants mUSBSERIALJTAG_DATEREG_<FIELD>
mUSBSERIALJTAG_DATEREG ==
  [ DATE |-> Hex(<<15,15,15,15,15,15,15,15>>) ]

\* src/USB_SERIAL_JTAG_ESP32-C6_LIB.h:595
mUSBSERIALJTAG_DATEREG_RESET == Hex(<<0,2,1,0,9,2,2,0>>)

\* src/USB_SERIAL_JTAG_ESP32-C6_LIB.h:604-653
__usbSerialJtag_t ==
  <<
    M("ep1Reg", "__usbSerialJtag_ep1Reg_t", 1, TRUE, <<0,0,0,0>>),
    M("ep1ConfReg", "__usbSerialJtag_ep1ConfReg_t", 1, TRUE, <<0,0,0,4>>),
    M("intRawReg", "__usbSerialJtag_intStatusReg_t", 1, TRUE, <<0,0,0,8>>),
    M("intStReg", "__usbSerialJtag_intStatusReg_t", 1, TRUE, <<0,0,0,12>>),
    M("intEnaReg", "__usbSerialJtag_intStatusReg_t", 1, TRUE, <<0,0,1,0>>),
    M("intClrReg", "__usbSerialJtag_intStatusReg_t", 1, TRUE, <<0,0,1,4>>),
    M("conf0Reg", "__usbSerialJtag_conf0Reg_t", 1, TRUE, <<0,0,1,8>>),
    M("testReg", "__usbSerialJtag_testReg_t", 1, TRUE, <<0,0,1,12>>),
    M("jfifoStReg", "__usbSerialJtag_jfifoStReg_t", 1, TRUE, <<0,0,2,0>>),
    M("framNumReg", "__usbSerialJtag_framNumReg_t", 1, TRUE, <<0,0,2,4>>),
    M("inEp0StReg", "__usbSerialJtag_inEpxStReg_t", 1, TRUE, <<0,0,2,8>>),
    M("inEp1StReg", "__usbSerialJtag_inEpxStReg_t", 1, TRUE, <<0,0,2,12>>),
    M("inEp2StReg", "__usbSerialJtag_inEpxStReg_t", 1, TRUE, <<0,0,3,0>>),
    M("inEp3StReg", "__usbSerialJtag_inEpxStReg_t", 1, TRUE, <<0,0,3,4>>),
    M("outEp0StReg", "__usbSerialJtag_outEpxStReg_t", 1, TRUE, <<0,0,3,8>>),
    M("outEp1StReg", "__usbSerialJtag_outEpxStReg_t", 1, TRUE, <<0,0,3,12>>),
    M("outEp2StReg", "__usbSerialJtag_outEpxStReg_t", 1, TRUE, <<0,0,4,0>>),
    M("miscConfReg", "__usbSerialJtag_miscConfReg_t", 1, TRUE, <<0,0,4,4>>),
    M("memConfReg", "__usbSerialJtag_memConfReg_t", 1, TRUE, <<0,0,4,8>>),
    M("chipRstReg", "__usbSerialJtag_chipRstReg_t", 1, TRUE, <<0,0,4,12>>),
    M("setLineCodeW0Reg", "__usbSerialJtag_setLineCodeW0Reg_t", 1, TRUE, <<0,0,5,0>>),
    M("setLineCodeW1Reg", "__usbSerialJtag_setLineCodeW1Reg_t", 1, TRUE, <<0,0,5,4>>),
    M("getLineCodeW0Reg", "__usbSerialJtag_getLineCodeW0Reg_t", 1, TRUE, <<0,0,5,8>>),
    M("getLineCodeW1Reg", "__usbSerialJtag_getLineCodeW1Reg_t", 1, TRUE, <<0,0,5,12>>),
    M("configUpdateReg", "__usbSerialJtag_configUpdateReg_t", 1, TRUE, <<0,0,6,0>>),
    M("serAfifoConficReg", "__usbSerialJtag_serAfifoConficReg_t", 1, TRUE, <<0,0,6,4>>),
    M("busResetStReg", "__usbSerialJtag_busResetStReg_t", 1, TRUE, <<0,0,6,8>>),
    M("RESERVED_0", "uint32_t", 5, FALSE, <<0,0,6,12>>),
    M("dateReg", "__usbSerialJtag_dateReg_t", 1, TRUE, <<0,0,8,0>>)
  >>

(***************************************************************************)
(* Registries: the declared types by name, the mask constants of each      *)
(* register type by field name, and the reset constant of each register.   *)
(***************************************************************************)

\* src/c.h:70-185
BusctrlTypes ==
  "__busctrl_priority_t" :> __busctrl_priority_t @@
  "__busctrl_priority_ack_t" :> __busctrl_priority_ack_t @@
  "__busctrl_perfctrn_t" :> __busctrl_perfctrn_t @@
  "__busctrl_perfseln_t" :> __busctrl_perfseln_t

\* src/USB_SERIAL_JTAG_ESP32-C6_LIB.h:58-589
UsbTypes ==
  "__usbSerialJtag_ep1Reg_t" :> __usbSerialJtag_ep1Reg_t @@
  "__usbSerialJtag_ep1ConfReg_t" :> __usbSerialJtag_ep1ConfReg_t @@
  "__usbSerialJtag_conf0Reg_t" :> __usbSerialJtag_conf0Reg_t @@
  "__usbSerialJtag_testReg_t" :> __usbSerialJtag_testReg_t @@
  "__usbSerialJtag_miscConfReg_t" :> __usbSerialJtag_miscConfReg_t @@
  "__usbSerialJtag_memConfReg_t" :> __usbSerialJtag_memConfReg_t @@
  "__usbSerialJtag_chipRstReg_t" :> __usbSerialJtag_chipRstReg_t @@
  "__usbSerialJtag_getLineCodeW0Reg_t" :> __usbSerialJtag_getLineCodeW0Reg_t @@
  "__usbSerialJtag_getLineCodeW1Reg_t" :> __usbSerialJtag_getLineCodeW1Reg_t @@
  "__usbSerialJtag_configUpdateReg_t" :> __usbSerialJtag_configUpdateReg_t @@
  "__usbSerialJtag_serAfifoConficReg_t" :> __usbSerialJtag_serAfifoConficReg_t @@
  "__usbSerialJtag_intStatusReg_t" :> __usbSerialJtag_intStatusReg_t @@
  "__usbSerialJtag_jfifoStReg_t" :> __usbSerialJtag_jfifoStReg_t @@
  "__usbSerialJtag_framNumReg_t" :> __usbSerialJtag_framNumReg_t @@
  "__usbSerialJtag_inEpxStReg_t" :> __usbSerialJtag_inEpxStReg_t @@
  "__usbSerialJtag_outEpxStReg_t" :> __usbSerialJtag_outEpxStReg_t @@
  "__usbSerialJtag_setLineCodeW0Reg_t" :> __usbSerialJtag_setLineCodeW0Reg_t @@
  "__usbSerialJtag_setLineCodeW1Reg_t" :> __usbSerialJtag_setLineCodeW1Reg_t @@
  "__usbSerialJtag_busResetStReg_t" :> __usbSerialJtag_busResetStReg_t @@
  "__usbSerialJtag_dateReg_t" :> __usbSerialJtag_dateReg_t

RegisterTypes == BusctrlTypes @@ UsbTypes

ModuleTypes == "__busctrl_t" :> __busctrl_t @@ "__usbSerialJtag_t" :> __usbSerialJtag_t

\* src/c.h:87-191: the mask constant named after each field
BusctrlMasks ==
  "__busctrl_priority_t" :>
      [ PROC0 |-> mBUSCTRL_PROC0, PROC1 |-> mBUSCTRL_PROC1,
        DMA_R |-> mBUSCTRL_DMA_R, DMA_W |-> mBUSCTRL_DMA_W ] @@
  "__busctrl_priority_ack_t" :> [ ACK |-> mBUSCTRL_ACK ] @@
  "__busctrl_perfctrn_t" :> [ VALUE |-> mBUSCTRL_COUNTER_VALUE ] @@
  "__busctrl_perfseln_t" :> [ VALUE |-> mBUSCTRL_SELECTOR_VALUE ]

\* src/USB_SERIAL_JTAG_ESP32-C6_LIB.h:69-594
UsbMasks ==
  "__usbSerialJtag_ep1Reg_t" :> mUSBSERIALJTAG_EP1REG @@
  "__usbSerialJtag_ep1ConfReg_t" :> mUSBSERIALJTAG_EP1CONFREG @@
  "__usbSerialJtag_conf0Reg_t" :> mUSBSERIALJTAG_CONF0REG @@
  "__usbSerialJtag_testReg_t" :> mUSBSERIALJTAG_TESTREG @@
  "__usbSerialJtag_miscConfReg_t" :> mUSBSERIALJTAG_MISCCONFREG @@
  "__usbSerialJtag_memConfReg_t" :> mUSBSERIALJTAG_MEMCONFREG @@
  "__usbSerialJtag_chipRstReg_t" :> mUSBSERIALJTAG_CHIPRSTREG @@
  "__usbSerialJtag_getLineCodeW0Reg_t" :> mUSBSERIALJTAG_GETLINECODEW0REG @@
  "__usbSerialJtag_getLineCodeW1Reg_t" :> mUSBSERIALJTAG_GETLINECODEW1REG @@
  "__usbSerialJtag_configUpdateReg_t" :> mUSBSERIALJTAG_CONFIGUPDATEREG @@
  "__usbSerialJtag_serAfifoConficReg_t" :> mUSBSERIALJTAG_SERAFIFOCONFICREG @@
  "__usbSerialJtag_intStatusReg_t" :> mUSBSERIALJTAG_INTSTATUSREG @@
  "__usbSerialJtag_jfifoStReg_t" :> mUSBSERIALJTAG_JFIFOSTREG @@
  "__usbSerialJtag_framNumReg_t" :> mUSBSERIALJTAG_FRAMNUMREG @@
  "__usbSerialJtag_inEpxStReg_t" :> mUSBSERIALJTAG_INEPXSTREG @@
  "__usbSerialJtag_outEpxStReg_t" :> mUSBSERIALJTAG_OUTEPXSTREG @@
  "__usbSerialJtag_setLineCodeW0Reg_t" :> mUSBSERIALJTAG_SETLINECODEW0REG @@
  "__usbSerialJtag_setLineCodeW1Reg_t" :> mUSBSERIALJTAG_SETLINECODEW1REG @@
  "__usbSerialJtag_busResetStReg_t" :> mUSBSERIALJTAG_BUSRESETSTREG @@
  "__usbSerialJtag_dateReg_t" :> mUSBSERIALJTAG_DATEREG

MaskConstants == BusctrlMasks @@ UsbMasks

\* src/c.h:91-192: the reset constant of each bus-fabric register
BusctrlReset ==
  "PRIORITY" :> mBUSCTRL_PRIORITY_RESET @@
  "PRIORITY_ACK" :> mBUSCTRL_PRIORITY_ACK_RESET @@
  "PERFCTR0" :> mBUSCTRL_PERFCTRN_RESET @@ "PERFSEL0" :> mBUSCTRL_PERFSELN_RESET @@
  "PERFCTR1" :> mBUSCTRL_PERFCTRN_RESET @@ "PERFSEL1" :> mBUSCTRL_PERFSELN_RESET @@
  "PERFCTR2" :> mBUSCTRL_PERFCTRN_RESET @@ "PERFSEL2" :> mBUSCTRL_PERFSELN_RESET @@
  "PERFCTR3" :> mBUSCTRL_PERFCTRN_RESET @@ "PERFSEL3" :> mBUSCTRL_PERFSELN_RESET

\* src/USB_SERIAL_JTAG_ESP32-C6_LIB.h:70-595: the reset constant of each
\* USB-Serial-JTAG register (the interrupt type has one per bank)
UsbReset ==
  "ep1Reg" :> mUSBSERIALJTAG_EP1REG_RESET @@
  "ep1ConfReg" :> mUSBSERIALJTAG_EP1CONFREG_RESET @@
  "intRawReg" :> mUSBSERIALJTAG_INTSTATUSREG_RESET_RAW @@
  "intStReg" :> mUSBSERIALJTAG_INTSTATUSREG_RESET_ST @@
  "intEnaReg" :> mUSBSERIALJTAG_INTSTATUSREG_RESET_ENA @@
  "intClrReg" :> mUSBSERIALJTAG_INTSTATUSREG_RESET_CLR @@
  "conf0Reg" :> mUSBSERIALJTAG_CONF0REG_RESET @@
  "testReg" :> mUSBSERIALJTAG_TESTREG_RESET @@
  "jfifoStReg" :> mUSBSERIALJTAG_JFIFOSTREG_RESET @@
  "framNumReg" :> mUSBSERIALJTAG_FRAMNUMREG_RESET @@
  "inEp0StReg" :> mUSBSERIALJTAG_INEPXSTREG_RESET @@
  "inEp1StReg" :> mUSBSERIALJTAG_INEPXSTREG_RESET @@
  "inEp2StReg" :> mUSBSERIALJTAG_INEPXSTREG_RESET @@
  "inEp3StReg" :> mUSBSERIALJTAG_INEPXSTREG_RESET @@
  "outEp0StReg" :> mUSBSERIALJTAG_OUTEPXSTREG_RESET @@
  "outEp1StReg" :> mUSBSERIALJTAG_OUTEPXSTREG_RESET @@
  "outEp2StReg" :> mUSBSERIALJTAG_OUTEPXSTREG_RESET @@
  "miscConfReg" :> mUSBSERIALJTAG_MISCCONFREG_RESET @@
  "memConfReg" :> mUSBSERIALJTAG_MEMCONFREG_RESET @@
  "chipRstReg" :> mUSBSERIALJTAG_CHIPRSTREG_RESET @@
  "setLineCodeW0Reg" :> mUSBSERIALJTAG_SETLINECODEW0REG_RESET @@
  "setLineCodeW1Reg" :> mUSBSERIALJTAG_SETLINECODEW1REG_RESET @@
  "getLineCodeW0Reg" :> mUSBSERIALJTAG_GETLINECODEW0REG_RESET @@
  "getLineCodeW1Reg" :> mUSBSERIALJTAG_GETLINECODEW1REG_RESET @@
  "configUpdateReg" :> mUSBSERIALJTAG_CONFIGUPDATEREG_RESET @@
  "serAfifoConficReg" :> mUSBSERIALJTAG_SERAFIFOCONFICREG_RESET @@
  "busResetStReg" :> mUSBSERIALJTAG_BUSRESETSTREG_RESET @@
  "dateReg" :> mUSBSERIALJTAG_DATEREG_RESET

(***************************************************************************)
(* Layout: how the compiler places the declarations of a type.             *)
(***************************************************************************)

\* The bytes of a uint32_t
WordBytes == WordBits \div 8

\* Where a bit-field of width w goes when bit p is the first free one:
\* bit-fields fill a uint32_t storage unit from bit 0 upwards in the order
\* of their declarations, and one that does not fit in the rest of the
\* unit starts the next unit.
FieldStart(p, w) ==
  IF (p % WordBits) + w > WordBits
    THEN ((p \div WordBits) + 1) * WordBits
    ELSE p

RECURSIVE FieldOffsetsFrom(_, _, _)
FieldOffsetsFrom(fields, i, p) ==
  IF i > Len(fields) THEN <<>>
  ELSE LET s == FieldStart(p, fields[i].width)
       IN  <<s>> \o FieldOffsetsFrom(fields, i + 1, s + fields[i].width)

\* The bit offset of every field of register type t, in declaration order
FieldOffsets(t) == FieldOffsetsFrom(RegisterTypes[t], 1, 0)

\* The first bit after the last field of register type t
BitsEnd(t) ==
  LET fields == RegisterTypes[t]
      n == Len(fields)
  IN  IF n = 0 THEN 0 ELSE FieldOffsets(t)[n] + fields[n].width

\* sizeof: a register type is a union of the uint32_t WORD and the BITS
\* structure, which takes as many uint32_t units as its bit-fields fill.
SizeOf(t) ==
  IF t = "uint32_t" THEN WordBytes
  ELSE LET units == (BitsEnd(t) + WordBits - 1) \div WordBits
       IN  WordBytes * (IF units < 1 THEN 1 ELSE units)

\* The next multiple of a at or after p
AlignUp(p, a) == ((p + a - 1) \div a) * a

RECURSIVE MemberOffsetsFrom(_, _, _)
MemberOffsetsFrom(members, i, p) ==
  IF i > Len(members) THEN <<>>
  ELSE LET s == AlignUp(p, WordBytes)
       IN  <<s>> \o MemberOffsetsFrom(members, i + 1,
                                      s + members[i].count * SizeOf(members[i].type))

\* The byte offset of every member of module structure t
MemberOffsets(t) == MemberOffsetsFrom(ModuleTypes[t], 1, 0)

\* The place of field f in register type t (0 when t declares no such field)
FieldIndex(t, f) ==
  LET hits == { i \in 1 .. Len(RegisterTypes[t]) : RegisterTypes[t][i].name = f }
  IN  IF hits = {} THEN 0 ELSE CHOOSE i \in hits : TRUE

\* The bits field number i of register type t occupies
FieldBits(t, i) ==
  LET o == FieldOffsets(t)[i]
  IN  o .. (o + RegisterTypes[t][i].width - 1)

LayoutInit ==
  /\ unit \in (DOMAIN RegisterTypes) \cup (DOMAIN ModuleTypes)
  /\ idx = 0
  /\ pos = 0
  /\ offs = <<>>
  /\ mem = BusctrlReset @@ UsbReset
  /\ focus = "none"
  /\ trace = <<>>
  /\ steps = 0
  /\ arb = <<>>

\* The compiler places the next bit-field of the register type
PlaceField ==
  /\ unit \in DOMAIN RegisterTypes
  /\ idx < Len(RegisterTypes[unit])
  /\ LET f == RegisterTypes[unit][idx + 1]
         s == FieldStart(pos, f.width)
     IN  /\ offs' = Append(offs, s)
         /\ pos' = s + f.width
  /\ idx' = idx + 1
  /\ UNCHANGED <<unit, mem, focus, trace, steps, arb>>

\* The compiler places the next member of the module structure
PlaceMember ==
  /\ unit \in DOMAIN ModuleTypes
  /\ idx < Len(ModuleTypes[unit])
  /\ LET m == ModuleTypes[unit][idx + 1]
         s == AlignUp(pos, WordBytes)
     IN  /\ offs' = Append(offs, s)
         /\ pos' = s + m.count * SizeOf(m.type)
  /\ idx' = idx + 1
  /\ UNCHANGED <<unit, mem, focus, trace, steps, arb>>

LayoutNext == PlaceField \/ PlaceMember

LayoutSpec == LayoutInit /\ [][LayoutNext]_vars

\* A register type's walk is complete
RegisterLaidOut == unit \in DOMAIN RegisterTypes /\ idx = Len(RegisterTypes[unit])

\* A module structure's walk is complete
ModuleLaidOut == unit \in DOMAIN ModuleTypes /\ idx = Len(ModuleTypes[unit])

(***************************************************************************)
(* Bindings and accessor macros                                            *)
(***************************************************************************)

\* A module structure bound at an address: (*((type *) address))
B(t, a) == [type |-> t, base |-> HexVal(a)]

\* src/c.h:238
sBUSCTRL == B("__busctrl_t", <<4,0,0,3,0,0,0,0>>)

\* Mutant: the XOR binding at the address of the normal block
Mut_sBUSCTRL_XOR_AtNormal == B("__busctrl_t", <<4,0,0,3,0,0,0,0>>)

\* src/c.h:239
sBUSCTRL_XOR == B("__busctrl_t", <<4,0,0,3,1,0,0,0>>)

\* Mutant: the SET binding at the address of the CLR block
Mut_sBUSCTRL_SET_AtClr == B("__busctrl_t", <<4,0,0,3,3,0,0,0>>)

\* src/c.h:240
sBUSCTRL_SET == B("__busctrl_t", <<4,0,0,3,2,0,0,0>>)

\* src/c.h:241
sBUSCTRL_CLR == B("__busctrl_t", <<4,0,0,3,3,0,0,0>>)

\* src/USB_SERIAL_JTAG_ESP32-C6_LIB.h:655
kUSB_SERIAL_JTAG_BASE_ADDR == <<6,0,0,0,15,0,0,0>>

\* src/USB_SERIAL_JTAG_ESP32-C6_LIB.h:656
sUSB_SERIAL_JTAG == B("__usbSerialJtag_t", kUSB_SERIAL_JTAG_BASE_ADDR)

Bindings ==
  [ sBUSCTRL |-> sBUSCTRL, sBUSCTRL_XOR |-> sBUSCTRL_XOR,
    sBUSCTRL_SET |-> sBUSCTRL_SET, sBUSCTRL_CLR |-> sBUSCTRL_CLR,
    sUSB_SERIAL_JTAG |-> sUSB_SERIAL_JTAG ]

\* An accessor macro: its name, and the binding, member and view it expands
\* to ("WORD", or the name it gives after BITS.)
A(n, b, m, f) == [macro |-> n, binding |-> b, member |-> m, field |-> f]

\* An atomic-write macro: its name, and the binding, member and mask of the
\* assignment  binding.member.WORD = mask  it expands to
X(n, b, m, k) == [macro |-> n, binding |-> b, member |-> m, mask |-> k]

\* src/c.h:249-308, the r... and b... macros
BusctrlAccessors ==
  {
    A("rBUSCTRL_PRIORITY", "sBUSCTRL", "PRIORITY", "WORD"),
    A("bBUSCTRL_PROC0", "sBUSCTRL", "PRIORITY", "PROC0"),
    A("bBUSCTRL_PROC1", "sBUSCTRL", "PRIORITY", "PROC1"),
    A("bBUSCTRL_DMAR", "sBUSCTRL", "PRIORITY", "DMA_R"),
    A("bBUSCTRL_DMAW", "sBUSCTRL", "PRIORITY", "DMA_W"),
    A("rBUSCTRL_PRIORITY_ACK", "sBUSCTRL", "PRIORITY_ACK", "WORD"),
    A("bBUSCTRL_ACK", "sBUSCTRL", "PRIORITY_ACK", "ACK"),
    A("rBUSCTRL_PERFCTR0", "sBUSCTRL", "PERFCTR0", "WORD"),
    A("bBUSCTRL_PERFCTR0_VALUE", "sBUSCTRL", "PERFCTR0", "VALUE"),
    A("rBUSCTRL_PERFCTR1", "sBUSCTRL", "PERFCTR1", "WORD"),
    A("bBUSCTRL_PERFCTR1_VALUE", "sBUSCTRL", "PERFCTR1", "VALUE"),
    A("rBUSCTRL_PERFCTR2", "sBUSCTRL", "PERFCTR2", "WORD"),
    A("bBUSCTRL_PERFCTR2_VALUE", "sBUSCTRL", "PERFCTR2", "VALUE"),
    A("rBUSCTRL_PERFCTR3", "sBUSCTRL", "PERFCTR3", "WORD"),
    A("bBUSCTRL_PERFCTR3_VALUE", "sBUSCTRL", "PERFCTR3", "VALUE"),
    A("rBUSCTRL_PERFSEL0", "sBUSCTRL", "PERFSEL0", "WORD"),
    A("bBUSCTRL_PERFSEL0_VALUE", "sBUSCTRL", "PERFSEL0", "VALUE"),
    A("rBUSCTRL_PERFSEL1", "sBUSCTRL", "PERFSEL1", "WORD"),
    A("bBUSCTRL_PERFSEL1_VALUE", "sBUSCTRL", "PERFSEL1", "VALUE"),
    A("rBUSCTRL_PERFSEL2", "sBUSCTRL", "PERFSEL2", "WORD"),
    A("bBUSCTRL_PERFSEL2_VALUE", "sBUSCTRL", "PERFSEL2", "VALUE"),
    A("rBUSCTRL_PERFSEL3", "sBUSCTRL", "PERFSEL3", "WORD"),
    A("bBUSCTRL_PERFSEL3_VALUE", "sBUSCTRL", "PERFSEL3", "VALUE")
  }

\* src/c.h:254-265, the xor..., set... and clr... macros
BusctrlAtomicWrites ==
  {
    X("xorBUSCTRL_PROC0", "sBUSCTRL_XOR", "PRIORITY", mBUSCTRL_PROC0),
    X("xorBUSCTRL_PROC1", "sBUSCTRL_XOR", "PRIORITY", mBUSCTRL_PROC1),
    X("xorBUSCTRL_DMAR", "sBUSCTRL_XOR", "PRIORITY", mBUSCTRL_DMA_R),
    X("xorBUSCTRL_DMAW", "sBUSCTRL_XOR", "PRIORITY", mBUSCTRL_DMA_W),
    X("setBUSCTRL_PROC0", "sBUSCTRL_SET", "PRIORITY", mBUSCTRL_PROC0),
    X("setBUSCTRL_PROC1", "sBUSCTRL_SET", "PRIORITY", mBUSCTRL_PROC1),
    X("setBUSCTRL_DMAR", "sBUSCTRL_SET", "PRIORITY", mBUSCTRL_DMA_R),
    X("setBUSCTRL_DMAW", "sBUSCTRL_SET", "PRIORITY", mBUSCTRL_DMA_W),
    X("clrBUSCTRL_PROC0", "sBUSCTRL_CLR", "PRIORITY", mBUSCTRL_PROC0),
    X("clrBUSCTRL_PROC1", "sBUSCTRL_CLR", "PRIORITY", mBUSCTRL_PROC1),
    X("clrBUSCTRL_DMAR", "sBUSCTRL_CLR", "PRIORITY", mBUSCTRL_DMA_R),
    X("clrBUSCTRL_DMAW", "sBUSCTRL_CLR", "PRIORITY", mBUSCTRL_DMA_W)
  }

\* src/USB_SERIAL_JTAG_ESP32-C6_LIB.h:663-899, the r... and b... macros
UsbAccessors ==
  {
    A("rUSB_SERIAL_JTAG_EP1", "sUSB_SERIAL_JTAG", "ep1Reg", "WORD"),
    A("bUSB_SERIAL_JTAG_EP1_RDWR_BYTE", "sUSB_SERIAL_JTAG", "ep1Reg", "RDWR_BYTE"),
    A("rUSB_SERIAL_JTAG_EP1_CONF", "sUSB_SERIAL_JTAG", "ep1ConfReg", "WORD"),
    A("bUSB_SERIAL_JTAG_EP1_CONF_WR_DONE", "sUSB_SERIAL_JTAG", "ep1ConfReg", "WR_DONE"),
    A("bUSB_SERIAL_JTAG_EP1_CONF_SERIAL_IN_EP_DATA_FREE", "sUSB_SERIAL_JTAG", "ep1ConfReg", "SERIAL_IN_EP_DATA_FREE"),
    A("bUSB_SERIAL_JTAG_EP1_CONF_SERIAL_OUT_EP_DATA_AVAIL", "sUSB_SERIAL_JTAG", "ep1ConfReg", "SERIAL_OUT_EP_DATA_AVAIL"),
    A("rUSB_SERIAL_JTAG_CONF0", "sUSB_SERIAL_JTAG", "conf0Reg", "WORD"),
    A("bUSB_SERIAL_JTAG_CONF0_PHY_SEL", "sUSB_SERIAL_JTAG", "conf0Reg", "PHY_SEL"),
    A("bUSB_SERIAL_JTAG_CONF0_EXCHG_PINS_OVERRIDE", "sUSB_SERIAL_JTAG", "conf0Reg", "EXCHG_PINS_OVERRIDE"),
    A("bUSB_SERIAL_JTAG_CONF0_EXCHG_PINS", "sUSB_SERIAL_JTAG", "conf0Reg", "EXCHG_PINS"),
    A("bUSB_SERIAL_JTAG_CONF0_VREFH", "sUSB_SERIAL_JTAG", "conf0Reg", "VREFH"),
    A("bUSB_SERIAL_JTAG_CONF0_VREFL", "sUSB_SERIAL_JTAG", "conf0Reg", "VREFL"),
    A("bUSB_SERIAL_JTAG_CONF0_VREF_OVERRIDE", "sUSB_SERIAL_JTAG", "conf0Reg", "VREF_OVERRIDE"),
    A("bUSB_SERIAL_JTAG_CONF0_PAD_PULL_OVERRIDE", "sUSB_SERIAL_JTAG", "conf0Reg", "PAD_PULL_OVERRIDE"),
    A("bUSB_SERIAL_JTAG_CONF0_DP_PULLUP", "sUSB_SERIAL_JTAG", "conf0Reg", "DP_PULLUP"),
    A("bUSB_SERIAL_JTAG_CONF0_DP_PULLDOWN", "sUSB_SERIAL_JTAG", "conf0Reg", "DP_PULLDOWN"),
    A("bUSB_SERIAL_JTAG_CONF0_DM_PULLUP", "sUSB_SERIAL_JTAG", "conf0Reg", "DM_PULLUP"),
    A("bUSB_SERIAL_JTAG_CONF0_DM_PULLDOWN", "sUSB_SERIAL_JTAG", "conf0Reg", "DM_PULLDOWN"),
    A("bUSB_SERIAL_JTAG_CONF0_PULLUP_VALUE", "sUSB_SERIAL_JTAG", "conf0Reg", "PULLUP_VALUE"),
    A("bUSB_SERIAL_JTAG_CONF0_USB_PAD_ENABLE", "sUSB_SERIAL_JTAG", "conf0Reg", "USB_PAD_ENABLE"),
    A("bUSB_SERIAL_JTAG_CONF0_USB_JTAG_BRIDGE_EN", "sUSB_SERIAL_JTAG", "conf0Reg", "USB_JTAG_BRIDGE_EN"),
    A("rUSB_SERIAL_JTAG_TEST", "sUSB_SERIAL_JTAG", "testReg", "WORD"),
    A("bUSB_SERIAL_JTAG_TEST_ENABLE", "sUSB_SERIAL_JTAG", "testReg", "TEST_ENABLE"),
    A("bUSB_SERIAL_JTAG_TEST_USB_OE", "sUSB_SERIAL_JTAG", "testReg", "TEST_USB_OE"),
    A("bUSB_SERIAL_JTAG_TEST_TX_DP", "sUSB_SERIAL_JTAG", "testReg", "TEST_TX_DP"),
    A("bUSB_SERIAL_JTAG_TEST_TX_DM", "sUSB_SERIAL_JTAG", "testReg", "TEST_TX_DM"),
    A("bUSB_SERIAL_JTAG_TEST_RX_RCV", "sUSB_SERIAL_JTAG", "testReg", "TEST_RX_RCV"),
    A("bUSB_SERIAL_JTAG_TEST_RX_DP", "sUSB_SERIAL_JTAG", "testReg", "TEST_RX_DP"),
    A("bUSB_SERIAL_JTAG_TEST_RX_DM", "sUSB_SERIAL_JTAG", "testReg", "TEST_RX_DM"),
    A("rUSB_SERIAL_JTAG_MISC_CONF", "sUSB_SERIAL_JTAG", "miscConfReg", "WORD"),
    A("bUSB_SERIAL_JTAG_MISC_CONF_CLK_EN", "sUSB_SERIAL_JTAG", "miscConfReg", "CLK_EN"),
    A("rUSB_SERIAL_JTAG_MEM_CONF", "sUSB_SERIAL_JTAG", "memConfReg", "WORD"),
    A("bUSB_SERIAL_JTAG_USB_MEM_PD", "sUSB_SERIAL_JTAG", "memConfReg", "USB_MEM_PD"),
    A("bUSB_SERIAL_JTAG_USB_MEM_CLK_EN", "sUSB_SERIAL_JTAG", "memConfReg", "USB_MEM_CLK_EN"),
    A("rUSB_SERIAL_JTAG_CHIP_RST", "sUSB_SERIAL_JTAG", "chipRstReg", "WORD"),
    A("bUSB_SERIAL_JTAG_RTS", "sUSB_SERIAL_JTAG", "chipRstReg", "JTAG_RTS"),
    A("bUSB_SERIAL_JTAG_DTR", "sUSB_SERIAL_JTAG", "chipRstReg", "JTAG_DTR"),
    A("bUSB_SERIAL_JTAG_USB_UART_CHIP_RST_DIS", "sUSB_SERIAL_JTAG", "chipRstReg", "USB_UART_CHIP_RST_DIS"),
    A("rUSB_SERIAL_JTAG_GET_LINE_CODE_W0", "sUSB_SERIAL_JTAG", "getLineCodeW0Reg", "WORD"),
    A("rUSB_SERIAL_JTAG_GET_LINE_CODE_W1", "sUSB_SERIAL_JTAG", "getLineCodeW1Reg", "WORD"),
    A("bUSB_SERIAL_JTAG_GET_BDATA_BITS", "sUSB_SERIAL_JTAG", "getLineCodeW1Reg", "GET_BDATA_BITS"),
    A("bUSB_SERIAL_JTAG_GET_BPARITY_TYPE", "sUSB_SERIAL_JTAG", "getLineCodeW1Reg", "GET_BPARITY_TYPE"),
    A("bUSB_SERIAL_JTAG_GET_BCHAR_FORMAT", "sUSB_SERIAL_JTAG", "getLineCodeW1Reg", "GET_BCHAR_FORMAT"),
    A("rUSB_SERIAL_JTAG_CONFIG_UPDATE", "sUSB_SERIAL_JTAG", "configUpdateReg", "WORD"),
    A("bUSB_SERIAL_JTAG_CONFIG_UPDATE", "sUSB_SERIAL_JTAG", "configUpdateReg", "UPDATE"),
    A("rUSB_SERIAL_JTAG_SER_AFIFO_CONFIC", "sUSB_SERIAL_JTAG", "serAfifoConficReg", "WORD"),
    A("bUSB_SERIAL_JTAG_SERIAL_IN_AFIFO_RESET_WR", "sUSB_SERIAL_JTAG", "serAfifoConficReg", "SERIAL_IN_AFIFO_RESET_WR"),
    A("bUSB_SERIAL_JTAG_SERIAL_IN_AFIFO_RESET_RD", "sUSB_SERIAL_JTAG", "serAfifoConficReg", "SERIAL_IN_AFIFO_RESET_RD"),
    A("bUSB_SERIAL_JTAG_SERIAL_OUT_AFIFO_RESET_WR", "sUSB_SERIAL_JTAG", "serAfifoConficReg", "SERIAL_OUT_AFIFO_RESET_WR"),
    A("bUSB_SERIAL_JTAG_SERIAL_OUT_AFIFO_RESET_RD", "sUSB_SERIAL_JTAG", "serAfifoConficReg", "SERIAL_OUT_AFIFO_RESET_RD"),
    A("bUSB_SERIAL_JTAG_SERIAL_OUT_AFIFO_REMPTY", "sUSB_SERIAL_JTAG", "serAfifoConficReg", "SERIAL_OUT_AFIFO_REMPTY"),
    A("bUSB_SERIAL_JTAG_SERIAL_IN_AFIFO_WFULL", "sUSB_SERIAL_JTAG", "serAfifoConficReg", "SERIAL_IN_AFIFO_WFULL"),
    A("rUSB_SERIAL_JTAG_INT_RAW", "sUSB_SERIAL_JTAG", "intRawReg", "WORD"),
    A("bUSB_SERIAL_JTAG_JTAG_IN_FLUSH_INT_RAW", "sUSB_SERIAL_JTAG", "intRawReg", "IN_FLUSH_INT"),
    A("bUSB_SERIAL_JTAG_SOF_INT_RAW", "sUSB_SERIAL_JTAG", "intRawReg", "SOF_INT"),
    A("bUSB_SERIAL_JTAG_SERIAL_OUT_RECV_PKT_INT_RAW", "sUSB_SERIAL_JTAG", "intRawReg", "OUT_RECV_PKT_INT"),
    A("bUSB_SERIAL_JTAG_SERIAL_IN_EMPTY_INT_RAW", "sUSB_SERIAL_JTAG", "intRawReg", "IN_EMPTY_INT"),
    A("bUSB_SERIAL_JTAG_PID_ERR_INT_RAW", "sUSB_SERIAL_JTAG", "intRawReg", "PID_ERR_INT"),
    A("bUSB_SERIAL_JTAG_CRC5_ERR_INT_RAW", "sUSB_SERIAL_JTAG", "intRawReg", "CRC5_ERR_INT"),
    A("bUSB_SERIAL_JTAG_CRC16_ERR_INT_RAW", "sUSB_SERIAL_JTAG", "intRawReg", "CRC16_ERR_INT"),
    A("bUSB_SERIAL_JTAG_STUFF_ERR_INT_RAW", "sUSB_SERIAL_JTAG", "intRawReg", "STUFF_ERR_INT"),
    A("bUSB_SERIAL_JTAG_IN_TOKEN_REC_IN_EP1_INT_RAW", "sUSB_SERIAL_JTAG", "intRawReg", "IN_TOKEN_REC_IN_EP1_INT"),
    A("bUSB_SERIAL_JTAG_USB_BUS_RESET_INT_RAW", "sUSB_SERIAL_JTAG", "intRawReg", "USB_BUS_RESET_INT"),
    A("bUSB_SERIAL_JTAG_OUT_EP1_ZERO_PAYLOAD_INT_RAW", "sUSB_SERIAL_JTAG", "intRawReg", "OUT_EP1_ZERO_PAYLOAD_INT"),
    A("bUSB_SERIAL_JTAG_OUT_EP2_ZERO_PAYLOAD_INT_RAW", "sUSB_SERIAL_JTAG", "intRawReg", "OUT_EP2_ZERO_PAYLOAD_INT"),
    A("bUSB_SERIAL_JTAG_RTS_CHG_INT_RAW", "sUSB_SERIAL_JTAG", "intRawReg", "RTS_CHG_INT"),
    A("bUSB_SERIAL_JTAG_DTR_CHG_INT_RAW", "sUSB_SERIAL_JTAG", "intRawReg", "DTR_CHG_INT"),
    A("bUSB_SERIAL_JTAG_GET_LINE_CODE_INT_RAW", "sUSB_SERIAL_JTAG", "intRawReg", "GET_LINE_CODE_INT"),
    A("bUSB_SERIAL_JTAG_SET_LINE_CODE_INT_RAW", "sUSB_SERIAL_JTAG", "intRawReg", "SET_LINE_CODE_INT"),
    A("rUSB_SERIAL_JTAG_INT_ST", "sUSB_SERIAL_JTAG", "intStReg", "WORD"),
    A("bUSB_SERIAL_JTAG_JTAG_IN_FLUSH_INT_ST", "sUSB_SERIAL_JTAG", "intStReg", "IN_FLUSH_INT"),
    A("bUSB_SERIAL_JTAG_SOF_INT_ST", "sUSB_SERIAL_JTAG", "intStReg", "SOF_INT"),
    A("bUSB_SERIAL_JTAG_SERIAL_OUT_RECV_PKT_INT_ST", "sUSB_SERIAL_JTAG", "intStReg", "OUT_RECV_PKT_INT"),
    A("bUSB_SERIAL_JTAG_SERIAL_IN_EMPTY_INT_ST", "sUSB_SERIAL_JTAG", "intStReg", "IN_EMPTY_INT"),
    A("bUSB_SERIAL_JTAG_PID_ERR_INT_ST", "sUSB_SERIAL_JTAG", "intStReg", "PID_ERR_INT"),
    A("bUSB_SERIAL_JTAG_CRC5_ERR_INT_ST", "sUSB_SERIAL_JTAG", "intStReg", "CRC5_ERR_INT"),
    A("bUSB_SERIAL_JTAG_CRC16_ERR_INT_ST", "sUSB_SERIAL_JTAG", "intStReg", "CRC16_ERR_INT"),
    A("bUSB_SERIAL_JTAG_STUFF_ERR_INT_ST", "sUSB_SERIAL_JTAG", "intStReg", "STUFF_ERR_INT"),
    A("bUSB_SERIAL_JTAG_IN_TOKEN_REC_IN_EP1_INT_ST", "sUSB_SERIAL_JTAG", "intStReg", "IN_TOKEN_REC_IN_EP1_INT"),
    A("bUSB_SERIAL_JTAG_USB_BUS_RESET_INT_ST", "sUSB_SERIAL_JTAG", "intStReg", "USB_BUS_RESET_INT"),
    A("bUSB_SERIAL_JTAG_OUT_EP1_ZERO_PAYLOAD_INT_ST", "sUSB_SERIAL_JTAG", "intStReg", "OUT_EP1_ZERO_PAYLOAD_INT"),
    A("bUSB_SERIAL_JTAG_OUT_EP2_ZERO_PAYLOAD_INT_ST", "sUSB_SERIAL_JTAG", "intStReg", "OUT_EP2_ZERO_PAYLOAD_INT"),
    A("bUSB_SERIAL_JTAG_RTS_CHG_INT_ST", "sUSB_SERIAL_JTAG", "intStReg", "RTS_CHG_INT"),
    A("bUSB_SERIAL_JTAG_DTR_CHG_INT_ST", "sUSB_SERIAL_JTAG", "intStReg", "DTR_CHG_INT"),
    A("bUSB_SERIAL_JTAG_GET_LINE_CODE_INT_ST", "sUSB_SERIAL_JTAG", "intStReg", "GET_LINE_CODE_INT"),
    A("bUSB_SERIAL_JTAG_SET_LINE_CODE_INT_ST", "sUSB_SERIAL_JTAG", "intStReg", "SET_LINE_CODE_INT"),
    A("rUSB_SERIAL_JTAG_INT_ENA", "sUSB_SERIAL_JTAG", "intEnaReg", "WORD"),
    A("bUSB_SERIAL_JTAG_JTAG_IN_FLUSH_INT_ENA", "sUSB_SERIAL_JTAG", "intEnaReg", "IN_FLUSH_INT"),
    A("bUSB_SERIAL_JTAG_SOF_INT_ENA", "sUSB_SERIAL_JTAG", "intEnaReg", "SOF_INT"),
    A("bUSB_SERIAL_JTAG_SERIAL_OUT_RECV_PKT_INT_ENA", "sUSB_SERIAL_JTAG", "intEnaReg", "OUT_RECV_PKT_INT"),
    A("bUSB_SERIAL_JTAG_SERIAL_IN_EMPTY_INT_ENA", "sUSB_SERIAL_JTAG", "intEnaReg", "IN_EMPTY_INT"),
    A("bUSB_SERIAL_JTAG_PID_ERR_INT_ENA", "sUSB_SERIAL_JTAG", "intEnaReg", "PID_ERR_INT"),
    A("bUSB_SERIAL_JTAG_CRC5_ERR_INT_ENA", "sUSB_SERIAL_JTAG", "intEnaReg", "CRC5_ERR_INT"),
    A("bUSB_SERIAL_JTAG_CRC16_ERR_INT_ENA", "sUSB_SERIAL_JTAG", "intEnaReg", "CRC16_ERR_INT"),
    A("bUSB_SERIAL_JTAG_STUFF_ERR_INT_ENA", "sUSB_SERIAL_JTAG", "intEnaReg", "STUFF_ERR_INT"),
    A("bUSB_SERIAL_JTAG_IN_TOKEN_REC_IN_EP1_INT_ENA", "sUSB_SERIAL_JTAG", "intEnaReg", "IN_TOKEN_REC_IN_EP1_INT"),
    A("bUSB_SERIAL_JTAG_USB_BUS_RESET_INT_ENA", "sUSB_SERIAL_JTAG", "intEnaReg", "USB_BUS_RESET_INT"),
    A("bUSB_SERIAL_JTAG_OUT_EP1_ZERO_PAYLOAD_INT_ENA", "sUSB_SERIAL_JTAG", "intEnaReg", "OUT_EP1_ZERO_PAYLOAD_INT"),
    A("bUSB_SERIAL_JTAG_OUT_EP2_ZERO_PAYLOAD_INT_ENA", "sUSB_SERIAL_JTAG", "intEnaReg", "OUT_EP2_ZERO_PAYLOAD_INT"),
    A("bUSB_SERIAL_JTAG_RTS_CHG_INT_ENA", "sUSB_SERIAL_JTAG", "intEnaReg", "RTS_CHG_INT"),
    A("bUSB_SERIAL_JTAG_DTR_CHG_INT_ENA", "sUSB_SERIAL_JTAG", "intEnaReg", "DTR_CHG_INT"),
    A("bUSB_SERIAL_JTAG_GET_LINE_CODE_INT_ENA", "sUSB_SERIAL_JTAG", "intEnaReg", "GET_LINE_CODE_INT"),
    A("bUSB_SERIAL_JTAG_SET_LINE_CODE_INT_ENA", "sUSB_SERIAL_JTAG", "intEnaReg", "SET_LINE_CODE_INT"),
    A("rUSB_SERIAL_JTAG_INT_CLR", "sUSB_SERIAL_JTAG", "intClrReg", "WORD"),
    A("bUSB_SERIAL_JTAG_JTAG_IN_FLUSH_INT_CLR", "sUSB_SERIAL_JTAG", "intClrReg", "IN_FLUSH_INT"),
    A("bUSB_SERIAL_JTAG_SOF_INT_CLR", "sUSB_SERIAL_JTAG", "intClrReg", "SOF_INT"),
    A("bUSB_SERIAL_JTAG_SERIAL_OUT_RECV_PKT_INT_CLR", "sUSB_SERIAL_JTAG", "intClrReg", "OUT_RECV_PKT_INT"),
    A("bUSB_SERIAL_JTAG_SERIAL_IN_EMPTY_INT_CLR", "sUSB_SERIAL_JTAG", "intClrReg", "IN_EMPTY_INT"),
    A("bUSB_SERIAL_JTAG_PID_ERR_INT_CLR", "sUSB_SERIAL_JTAG", "intClrReg", "PID_ERR_INT"),
    A("bUSB_SERIAL_JTAG_CRC5_ERR_INT_CLR", "sUSB_SERIAL_JTAG", "intClrReg", "CRC5_ERR_INT"),
    A("bUSB_SERIAL_JTAG_CRC16_ERR_INT_CLR", "sUSB_SERIAL_JTAG", "intClrReg", "CRC16_ERR_INT"),
    A("bUSB_SERIAL_JTAG_STUFF_ERR_INT_CLR", "sUSB_SERIAL_JTAG", "intClrReg", "STUFF_ERR_INT"),
    A("bUSB_SERIAL_JTAG_IN_TOKEN_REC_IN_EP1_INT_CLR", "sUSB_SERIAL_JTAG", "intClrReg", "IN_TOKEN_REC_IN_EP1_INT"),
    A("bUSB_SERIAL_JTAG_USB_BUS_RESET_INT_CLR", "sUSB_SERIAL_JTAG", "intClrReg", "USB_BUS_RESET_INT"),
    A("bUSB_SERIAL_JTAG_OUT_EP1_ZERO_PAYLOAD_INT_CLR", "sUSB_SERIAL_JTAG", "intClrReg", "OUT_EP1_ZERO_PAYLOAD_INT"),
    A("bUSB_SERIAL_JTAG_OUT_EP2_ZERO_PAYLOAD_INT_CLR", "sUSB_SERIAL_JTAG", "intClrReg", "OUT_EP2_ZERO_PAYLOAD_INT"),
    A("bUSB_SERIAL_JTAG_RTS_CHG_INT_CLR", "sUSB_SERIAL_JTAG", "intClrReg", "RTS_CHG_INT"),
    A("bUSB_SERIAL_JTAG_DTR_CHG_INT_CLR", "sUSB_SERIAL_JTAG", "intClrReg", "DTR_CHG_INT"),
    A("bUSB_SERIAL_JTAG_GET_LINE_CODE_INT_CLR", "sUSB_SERIAL_JTAG", "intClrReg", "GET_LINE_CODE_INT"),
    A("bUSB_SERIAL_JTAG_SET_LINE_CODE_INT_CLR", "sUSB_SERIAL_JTAG", "intClrReg", "SET_LINE_CODE_INT"),
    A("rUSB_SERIAL_JTAG_JFIFO_ST", "sUSB_SERIAL_JTAG", "jfifoStReg", "WORD"),
    A("bUSB_SERIAL_JTAG_IN_FIFO_CNT", "sUSB_SERIAL_JTAG", "jfifoStReg", "IN_FIFO_CNT"),
    A("bUSB_SERIAL_JTAG_IN_FIFO_EMPTY", "sUSB_SERIAL_JTAG", "jfifoStReg", "IN_FIFO_EMPTY"),
    A("bUSB_SERIAL_JTAG_IN_FIFO_FULL", "sUSB_SERIAL_JTAG", "jfifoStReg", "IN_FIFO_FULL"),
    A("bUSB_SERIAL_JTAG_OUT_FIFO_CNT", "sUSB_SERIAL_JTAG", "jfifoStReg", "OUT_FIFO_CNT"),
    A("bUSB_SERIAL_JTAG_OUT_FIFO_EMPTY", "sUSB_SERIAL_JTAG", "jfifoStReg", "OUT_FIFO_EMPTY"),
    A("bUSB_SERIAL_JTAG_OUT_FIFO_FULL", "sUSB_SERIAL_JTAG", "jfifoStReg", "OUT_FIFO_FULL"),
    A("bUSB_SERIAL_JTAG_IN_FIFO_RESET", "sUSB_SERIAL_JTAG", "jfifoStReg", "IN_FIFO_RESET"),
    A("bUSB_SERIAL_JTAG_OUT_FIFO_RESET", "sUSB_SERIAL_JTAG", "jfifoStReg", "OUT_FIFO_RESET"),
    A("rUSB_SERIAL_JTAG_FRAM_NUM", "sUSB_SERIAL_JTAG", "framNumReg", "WORD"),
    A("bUSB_SERIAL_JTAG_SOF_FRAME_INDEX", "sUSB_SERIAL_JTAG", "framNumReg", "SOF_FRAME_INDEX"),
    A("rUSB_SERIAL_JTAG_IN_EP0_ST", "sUSB_SERIAL_JTAG", "inEp0StReg", "WORD"),
    A("bUSB_SERIAL_JTAG_IN_EP0_STATE", "sUSB_SERIAL_JTAG", "inEp0StReg", "IN_EP_STATE"),
    A("bUSB_SERIAL_JTAG_IN_EP0_WR_ADDR", "sUSB_SERIAL_JTAG", "inEp0StReg", "IN_EP_WR_ADDR"),
    A("bUSB_SERIAL_JTAG_IN_EP0_RD_ADDR", "sUSB_SERIAL_JTAG", "inEp0StReg", "IN_EP_RD_ADDR")
  }

(***************************************************************************)
(* The hardware behind the addresses                                       *)
(***************************************************************************)

\* What the hardware does with a write that arrives in each block of
\* addresses, as the comments of the bindings document it: "Normal RW
\* access", "Atomic XOR WO access", "Atomic SET WO access", "Atomic CLEAR WO
\* access".
AddressMap ==
  << [base |-> HexVal(<<4,0,0,3,0,0,0,0>>), type |-> "__busctrl_t", op |-> "RW"],
     [base |-> HexVal(<<4,0,0,3,1,0,0,0>>), type |-> "__busctrl_t", op |-> "XOR"],
     [base |-> HexVal(<<4,0,0,3,2,0,0,0>>), type |-> "__busctrl_t", op |-> "SET"],
     [base |-> HexVal(<<4,0,0,3,3,0,0,0>>), type |-> "__busctrl_t", op |-> "CLR"],
     [base |-> HexVal(<<6,0,0,0,15,0,0,0>>), type |-> "__usbSerialJtag_t", op |-> "RW"] >>

\* The byte offsets of the members of both module structures
ModuleLayout == [ t \in DOMAIN ModuleTypes |-> MemberOffsets(t) ]

\* The bits of every field of every register type
FieldLayout ==
  [ t \in DOMAIN RegisterTypes |->
      [ i \in 1 .. Len(RegisterTypes[t]) |-> FieldBits(t, i) ] ]

MemberIndex(t, m) ==
  CHOOSE i \in 1 .. Len(ModuleTypes[t]) : ModuleTypes[t][i].name = m

\* The registers: the volatile members of both module structures
Registers ==
  UNION { { ModuleTypes[t][i].name :
              i \in { k \in 1 .. Len(ModuleTypes[t]) : ModuleTypes[t][k].vol } } :
          t \in DOMAIN ModuleTypes }

\* The register type of a register
TypeOf ==
  [ r \in Registers |->
      LET t == CHOOSE t \in DOMAIN ModuleTypes :
                 \E i \in 1 .. Len(ModuleTypes[t]) : ModuleTypes[t][i].name = r
      IN  ModuleTypes[t][MemberIndex(t, r)].type ]

\* The address of  binding.member.WORD
AddressOf(b, m) ==
  Bindings[b].base + ModuleLayout[Bindings[b].type][MemberIndex(Bindings[b].type, m)]

\* The registers of every block: the address of each, the block's way of
\* writing, and the register
Decoder ==
  UNION { { [addr |-> AddressMap[k].base + ModuleLayout[AddressMap[k].type][i],
             op |-> AddressMap[k].op,
             reg |-> ModuleTypes[AddressMap[k].type][i].name,
             type |-> ModuleTypes[AddressMap[k].type][i].type] :
              i \in { j \in 1 .. Len(ModuleTypes[AddressMap[k].type]) :
                        ModuleTypes[AddressMap[k].type][j].vol } } :
          k \in 1 .. Len(AddressMap) }

\* What each address selects
Decoded ==
  [ a \in { d.addr : d \in Decoder } |-> CHOOSE d \in Decoder : d.addr = a ]

\* Mutant: a write-trigger field stores the written bit
Mut_Response_TriggerStored(acc, cur, data) ==
  CASE acc \in {"RW", "R/W", "WT"} -> data
    [] acc \in {"RO", "RSV"} -> cur
    [] acc = "WC" -> {}
    [] acc = "R/WTC/SS" -> cur \ data

\* Mutant: an R/WTC/SS bit is cleared by writing 0 to it
Mut_Response_ZeroClears(acc, cur, data) ==
  CASE acc \in {"RW", "R/W"} -> data
    [] acc \in {"RO", "RSV"} -> cur
    [] acc \in {"WC", "WT"} -> {}
    [] acc = "R/WTC/SS" -> cur \cap data

\* What a field keeps of the written data, by its access discipline:
\* read/write fields store it; read-only fields and the bits that are not
\* implemented keep what they have; a write clears a write-to-clear field
\* ("Write any value to clear"); a write-trigger field acts and stores
\* nothing; a 1 written to an R/WTC/SS bit clears it.
Response(acc, cur, data) ==
  CASE acc \in {"RW", "R/W"} -> data
    [] acc \in {"RO", "RSV"} -> cur
    [] acc \in {"WC", "WT"} -> {}
    [] acc = "R/WTC/SS" -> cur \ data

HwWrite(t, cur, data) ==
  UNION { Response(RegisterTypes[t][i].acc, cur, data) \cap FieldLayout[t][i] :
            i \in 1 .. Len(RegisterTypes[t]) }

\* Mutant: the XOR block sets the written bits
Mut_Combine_XorSets(op, cur, data) ==
  CASE op = "RW" -> data
    [] op = "XOR" -> cur \cup data
    [] op = "SET" -> cur \cup data
    [] op = "CLR" -> cur \ data

\* Mutant: every block stores the written word as it is
Mut_Combine_Overwrite(op, cur, data) == data

\* The data an address block makes of a write: the written word, or its
\* bitwise combination with the register's current value
Combine(op, cur, data) ==
  CASE op = "RW" -> data
    [] op = "XOR" -> (cur \ data) \cup (data \ cur)
    [] op = "SET" -> cur \cup data
    [] op = "CLR" -> cur \ data

\* One write transaction on the bus
Store(m, addr, data) ==
  IF addr \notin DOMAIN Decoded THEN m
  ELSE LET d == Decoded[addr]
       IN  [m EXCEPT ![d.reg] = HwWrite(d.type, m[d.reg], Combine(d.op, m[d.reg], data))]

\* One read transaction on the bus (through a normal binding)
Load(m, addr) == m[Decoded[addr].reg]

(***************************************************************************)
(* Software accesses                                                       *)
(***************************************************************************)

\* Mutant: the field's bits are read where they lie in the word
Mut_FieldOf_NoShift(w, t, i) == w \cap FieldLayout[t][i]

\* The value of field i of type t in word w
FieldOf(w, t, i) ==
  LET o == CHOOSE b \in FieldLayout[t][i] : \A c \in FieldLayout[t][i] : b <= c
  IN  { b - o : b \in w \cap FieldLayout[t][i] }

\* Mutant: the value is not moved to the field's offset
Mut_WithField_NoShift(w, t, i, v) ==
  (w \ FieldLayout[t][i]) \cup (v \cap (0 .. (RegisterTypes[t][i].width - 1)))

\* Word w with v assigned to field i of type t: the value is converted to
\* the field's width, the other bits of the word are kept
WithField(w, t, i, v) ==
  LET o == CHOOSE b \in FieldLayout[t][i] : \A c \in FieldLayout[t][i] : b <= c
  IN  (w \ FieldLayout[t][i])
        \cup { b + o : b \in v \cap (0 .. (RegisterTypes[t][i].width - 1)) }

\* The value read through a bit-field accessor macro
ReadField(m, a) ==
  FieldOf(Load(m, AddressOf(a.binding, a.member)), TypeOf[a.member],
          FieldIndex(TypeOf[a.member], a.field))

\* Mutant: the counter wraps to 0 after all ones
Mut_Count_Wraps(v, width) ==
  LET zeros == (0 .. (width - 1)) \ v
  IN  IF zeros = {} THEN {}
      ELSE LET k == CHOOSE b \in zeros : \A c \in zeros : b <= c
           IN  (v \ (0 .. k)) \cup {k}

\* A counter one event later: it saturates at all ones
Count(v, width) ==
  LET zeros == (0 .. (width - 1)) \ v
  IN  IF zeros = {} THEN v
      ELSE LET k == CHOOSE b \in zeros : \A c \in zeros : b <= c
           IN  (v \ (0 .. k)) \cup {k}

\* The number of accesses of one run
MaxOps == 3

\* The words and masks software writes
SampleWords ==
  { Hex(<<0,0,0,0,0,0,0,0>>), Hex(<<15,15,15,15,15,15,15,15>>),
    Hex(<<0,0,0,0,0,1,0,1>>), Hex(<<8,0,0,0,1,0,1,3>>) }

\* The values software assigns to a field of a given width: 0, 1, the
\* largest value that fits, and one that does not fit (2^width + 1)
SampleValues(width) ==
  { {}, {0}, 0 .. (width - 1) }
    \cup (IF width < WordBits THEN { {0, width} } ELSE {})

\* The processors that issue bus-fabric accesses ("Processor 0",
\* "Processor 1")
Contexts == { "proc0", "proc1" }

\* The accessor macros of each register
AccessorsOf ==
  [ r \in Registers |-> { a \in BusctrlAccessors \cup UsbAccessors : a.member = r } ]

\* The declared width of the field an accessor macro names (0 when the
\* register's type declares no such field: the macro does not compile)
WidthOf(a) ==
  LET t == TypeOf[a.member]
  IN  IF FieldIndex(t, a.field) > 0 THEN RegisterTypes[t][FieldIndex(t, a.field)].width ELSE 0

ContextsOf(b) == IF Bindings[b].type = "__busctrl_t" THEN Contexts ELSE { "cpu" }

Op(c, o, via, f, d) ==
  [ctx |-> c, op |-> o, via |-> via, field |-> f, data |-> d, before |-> mem[focus]]

\* The trace keeps the latest access, and the one before it when both are
\* atomic writes
Logged(rec) ==
  IF trace # <<>> /\ rec.op = "atomic" /\ trace[Len(trace)].op = "atomic"
    THEN <<trace[Len(trace)], rec>>
    ELSE <<rec>>

Idle == unit = "idle" /\ idx = 0 /\ pos = 0 /\ offs = <<>>

Init ==
  /\ Idle
  /\ mem = BusctrlReset @@ UsbReset
  /\ focus \in Registers
  /\ trace = <<>>
  /\ steps = 0
  /\ arb = <<>>

Step(rec, m) ==
  /\ mem' = m
  /\ trace' = Logged(rec)
  /\ steps' = steps + 1
  /\ UNCHANGED <<unit, idx, pos, offs, focus, arb>>

\* rREGISTER = w
WriteWord ==
  /\ steps < MaxOps
  /\ \E a \in AccessorsOf[focus], w \in SampleWords :
       \E c \in ContextsOf(a.binding) :
         /\ a.field = "WORD"
         /\ Step(Op(c, "word", a.macro, "WORD", w),
                 Store(mem, AddressOf(a.binding, a.member), w))

\* bFIELD = v : the word is loaded, the field replaced, the word stored
WriteField ==
  /\ steps < MaxOps
  /\ \E a \in AccessorsOf[focus] :
       \E c \in ContextsOf(a.binding), v \in SampleValues(WidthOf(a)) :
         /\ a.field # "WORD"
         /\ FieldIndex(TypeOf[focus], a.field) > 0
         /\ LET addr == AddressOf(a.binding, a.member)
                i == FieldIndex(TypeOf[focus], a.field)
            IN  Step(Op(c, "field", a.macro, a.field, v),
                     Store(mem, addr, WithField(Load(mem, addr), TypeOf[focus], i, v)))

\* sBUSCTRL_XOR.REGISTER.WORD = w, and the same through _SET and _CLR
AtomicWrite ==
  /\ steps < MaxOps
  /\ TypeOf[focus] \in DOMAIN BusctrlTypes
  /\ \E b \in { "sBUSCTRL_XOR", "sBUSCTRL_SET", "sBUSCTRL_CLR" }, c \in Contexts,
        w \in SampleWords :
       Step(Op(c, "atomic", b, "WORD", w), Store(mem, AddressOf(b, focus), w))

\* One of the twelve xor..., set... and clr... macros
AtomicMacro ==
  /\ steps < MaxOps
  /\ \E x \in BusctrlAtomicWrites, c \in Contexts :
       /\ x.member = focus
       /\ Step(Op(c, "atomic", x.binding, x.macro, x.mask),
               Store(mem, AddressOf(x.binding, x.member), x.mask))

\* The named constants scoped to the field an accessor macro names
ConstantsOf(a) ==
  CASE a.member = "PRIORITY" /\ a.field # "WORD" ->
         { K("kBUSCTRL_LOW_PRIORITY", a.field, kBUSCTRL_LOW_PRIORITY),
           K("kBUSCTRL_HIGH_PRIORITY", a.field, kBUSCTRL_HIGH_PRIORITY) }
    [] a.member = "PRIORITY_ACK" /\ a.field = "ACK" ->
         { K("kBUSCTRL_ACK_OK", a.field, kBUSCTRL_ACK_OK) }
    [] TypeOf[a.member] = "__busctrl_perfseln_t" ->
         { k \in kBUSCTRL_SEL : k.field = a.field }
    [] a.member = "conf0Reg" ->
         { k \in kUSBSERIALJTAG_CONF0REG : k.field = a.field }
    [] OTHER -> {}

\* bFIELD = kCONSTANT : a bit-field assignment of a named constant to the
\* field it is defined for
WriteConstant ==
  /\ steps < MaxOps
  /\ \E a \in AccessorsOf[focus] :
       \E c \in ContextsOf(a.binding), k \in ConstantsOf(a) :
         /\ FieldIndex(TypeOf[focus], a.field) > 0
         /\ RegisterTypes[TypeOf[focus]][FieldIndex(TypeOf[focus], a.field)].acc # "RO"
         /\ LET addr == AddressOf(a.binding, a.member)
                i == FieldIndex(TypeOf[focus], a.field)
            IN  Step(Op(c, "const", k.name, a.field, Word(k.value)),
                     Store(mem, addr, WithField(Load(mem, addr), TypeOf[focus], i, Word(k.value))))

\* The hardware changes a field of the register: a read-only field takes
\* a new value, an R/WTC/SS bit is set by its event, a counter counts
HwEvent ==
  /\ steps < MaxOps
  /\ \E i \in 1 .. Len(RegisterTypes[TypeOf[focus]]) :
       LET t == TypeOf[focus]
           f == RegisterTypes[t][i]
           old == FieldOf(mem[focus], t, i)
       IN  /\ f.acc \in { "RO", "R/WTC/SS", "WC" }
           /\ \E new \in (CASE f.acc = "RO" -> { {}, {0}, 0 .. (f.width - 1) }
                             [] f.acc = "R/WTC/SS" -> { 0 .. (f.width - 1) }
                             [] f.acc = "WC" -> { Count(old, f.width) }) :
                Step(Op("hw", "event", f.name, f.name, new),
                     [mem EXCEPT ![focus] = WithField(mem[focus], t, i, new)])

Next == WriteWord \/ WriteField \/ WriteConstant \/ AtomicWrite \/ AtomicMacro \/ HwEvent

Spec == Init /\ [][Next]_vars

(***************************************************************************)
(* Priority acknowledge (AckSpec): c.h:106-109                             *)
(***************************************************************************)

\* The arbiters of the run (the source gives no number)
NumArbiters == 2

Arbiters == 1 .. NumArbiters

\* The writes to PRIORITY of one run
MaxWrites == 2

\* PRIORITY_ACK with its ACK bit at v
WithAck(m, v) ==
  [m EXCEPT !["PRIORITY_ACK"] = WithField(@, "__busctrl_priority_ack_t", 1, v)]

\* A software write to PRIORITY: when it changes the global priority levels
\* the arbiters have not registered them, and ACK is 0 until they have
Repriorised(m) ==
  IF m["PRIORITY"] # mem["PRIORITY"] THEN WithAck(m, {}) ELSE m

AckInit ==
  /\ Idle
  /\ mem = BusctrlReset @@ UsbReset
  /\ focus = "PRIORITY"
  /\ trace = <<>>
  /\ steps = 0
  /\ arb = [a \in Arbiters |-> mBUSCTRL_PRIORITY_RESET]

\* rBUSCTRL_PRIORITY = w
PriorityWord ==
  /\ steps < MaxWrites
  /\ \E c \in Contexts, w \in SampleWords :
       Step(Op(c, "word", "rBUSCTRL_PRIORITY", "WORD", w),
            Repriorised(Store(mem, AddressOf("sBUSCTRL", "PRIORITY"), w)))

\* One of the twelve xor..., set... and clr... macros
PriorityMacro ==
  /\ steps < MaxWrites
  /\ \E x \in BusctrlAtomicWrites, c \in Contexts :
       Step(Op(c, "atomic", x.binding, x.macro, x.mask),
            Repriorised(Store(mem, AddressOf(x.binding, x.member), x.mask)))

\* Mutant: the arbiter registers the levels and ACK is never raised
Mut_ArbiterService_NoAck(a) ==
  /\ arb' = [arb EXCEPT ![a] = mem["PRIORITY"]]
  /\ UNCHANGED <<unit, idx, pos, offs, mem, focus, trace, steps>>

\* "Arbiters update their local priority when servicing a new nonsequential
\* access"; "ACK bit goes to 1 once all arbiters have registered the new
\* global priority levels"
ArbiterService(a) ==
  /\ arb' = [arb EXCEPT ![a] = mem["PRIORITY"]]
  /\ mem' = IF \A b \in Arbiters : arb'[b] = mem["PRIORITY"]
              THEN WithAck(mem, {0})
              ELSE mem
  /\ UNCHANGED <<unit, idx, pos, offs, focus, trace, steps>>

ArbitersService == \E a \in Arbiters : ArbiterService(a)

AckNext == PriorityWord \/ PriorityMacro \/ ArbitersService

\* Every arbiter keeps servicing new nonsequential accesses
AckSpec ==
  /\ AckInit
  /\ [][AckNext]_vars
  /\ \A a \in Arbiters : WF_vars(ArbiterService(a))

(***************************************************************************)
(* Performance counters over long runs (CounterSpec): c.h:137-161          *)
(***************************************************************************)

\* The events counted between two accesses of a long run: two short of
\* what fills the 24-bit counter
BurstLen == Pow2(24) - 2

\* A counter n events later, n at most 2^24
Burst(v, n) ==
  LET sum == ToNat(v) + n
      top == Pow2(24) - 1
      end == IF sum > top THEN top ELSE sum
  IN  { i \in 0 .. 23 : (end \div Pow2(i)) % 2 = 1 }

CounterInit ==
  /\ Idle
  /\ mem = BusctrlReset @@ UsbReset
  /\ focus \in { ModuleTypes["__busctrl_t"][i].name :
                    i \in { j \in 1 .. Len(ModuleTypes["__busctrl_t"]) :
                              ModuleTypes["__busctrl_t"][j].type = "__busctrl_perfctrn_t" } }
  /\ trace = <<>>
  /\ steps = 0
  /\ arb = <<>>

\* The selected source produces one event
CountEvent ==
  /\ steps < MaxOps
  /\ LET old == FieldOf(mem[focus], "__busctrl_perfctrn_t", 1)
     IN  Step(Op("hw", "event", "one", "VALUE", Count(old, 24)),
              [mem EXCEPT ![focus] = WithField(mem[focus], "__busctrl_perfctrn_t", 1, Count(old, 24))])

\* The selected source produces BurstLen events
CountBurst ==
  /\ steps < MaxOps
  /\ LET old == FieldOf(mem[focus], "__busctrl_perfctrn_t", 1)
     IN  Step(Op("hw", "event", "burst", "VALUE", Burst(old, BurstLen)),
              [mem EXCEPT ![focus] = WithField(mem[focus], "__busctrl_perfctrn_t", 1, Burst(old, BurstLen))])

CounterNext == CountEvent \/ CountBurst \/ WriteWord \/ WriteField

CounterSpec == CounterInit /\ [][CounterNext]_vars

(***************************************************************************)
(* Properties of the layout (LayoutSpec)                                   *)
(***************************************************************************)

\* The byte offsets claim C1 lists for __usbSerialJtag_t, as hexadecimal digits
C1_Offsets ==
  [ ep1Reg |-> <<0,0>>, ep1ConfReg |-> <<0,4>>, intRawReg |-> <<0,8>>,
    intStReg |-> <<0,12>>, intEnaReg |-> <<1,0>>, intClrReg |-> <<1,4>>,
    conf0Reg |-> <<1,8>>, testReg |-> <<1,12>>, jfifoStReg |-> <<2,0>>,
    framNumReg |-> <<2,4>>, inEp0StReg |-> <<2,8>>, inEp1StReg |-> <<2,12>>,
    inEp2StReg |-> <<3,0>>, inEp3StReg |-> <<3,4>>, outEp0StReg |-> <<3,8>>,
    outEp1StReg |-> <<3,12>>, outEp2StReg |-> <<4,0>>, miscConfReg |-> <<4,4>>,
    memConfReg |-> <<4,8>>, chipRstReg |-> <<4,12>>, setLineCodeW0Reg |-> <<5,0>>,
    setLineCodeW1Reg |-> <<5,4>>, getLineCodeW0Reg |-> <<5,8>>,
    getLineCodeW1Reg |-> <<5,12>>, configUpdateReg |-> <<6,0>>,
    serAfifoConficReg |-> <<6,4>>, busResetStReg |-> <<6,8>>,
    RESERVED_0 |-> <<6,12>>, dateReg |-> <<8,0>> ]

\* C1: in __usbSerialJtag_t every member the compiler has placed lies at the
\* byte offset the claim lists for it, which is also the offset the member's
\* comment documents; every register member takes 4 bytes and the filler
\* RESERVED_0 five 4-byte words (0x6C-0x7C); all 29 members are placed by
\* the end, and the complete structure is 0x84 bytes long.
C1_UsbMemberOffsets ==
  unit = "__usbSerialJtag_t" =>
    /\ \A i \in 1 .. idx :
         LET m == __usbSerialJtag_t[i]
         IN  /\ m.name \in DOMAIN C1_Offsets
             /\ offs[i] = HexVal(C1_Offsets[m.name])
             /\ offs[i] = HexVal(m.doc)
             /\ m.count * SizeOf(m.type) = (IF m.name = "RESERVED_0" THEN 5 * 4 ELSE 4)
    /\ ModuleLaidOut =>
         /\ pos = HexVal(<<8,4>>)
         /\ { __usbSerialJtag_t[i].name : i \in 1 .. idx } = DOMAIN C1_Offsets

\* C1 witness: the whole structure is laid out, dateReg placed at 0x80
C1_Witness ==
  /\ unit = "__usbSerialJtag_t"
  /\ ModuleLaidOut
  /\ offs[idx] = 128
  /\ pos = 132

\* The byte offsets claim C2 lists for __busctrl_t, as hexadecimal digits
C2_Offsets ==
  [ PRIORITY |-> <<0,0>>, PRIORITY_ACK |-> <<0,4>>, PERFCTR0 |-> <<0,8>>,
    PERFSEL0 |-> <<0,12>>, PERFCTR1 |-> <<1,0>>, PERFSEL1 |-> <<1,4>>,
    PERFCTR2 |-> <<1,8>>, PERFSEL2 |-> <<1,12>>, PERFCTR3 |-> <<2,0>>,
    PERFSEL3 |-> <<2,4>> ]

\* C2: in __busctrl_t every member the compiler has placed lies at the byte
\* offset the claim lists for it; all ten members are placed by the end, and
\* the complete structure is 0x28 bytes long.
C2_BusctrlMemberOffsets ==
  unit = "__busctrl_t" =>
    /\ \A i \in 1 .. idx :
         LET m == __busctrl_t[i]
         IN  /\ m.name \in DOMAIN C2_Offsets
             /\ offs[i] = HexVal(C2_Offsets[m.name])
    /\ ModuleLaidOut =>
         /\ pos = HexVal(<<2,8>>)
         /\ { __busctrl_t[i].name : i \in 1 .. idx } = DOMAIN C2_Offsets

\* C2 witness: the whole structure is laid out, PERFSEL3 placed at 0x24
C2_Witness ==
  /\ unit = "__busctrl_t"
  /\ ModuleLaidOut
  /\ offs[idx] = 36
  /\ pos = 40

RECURSIVE SumWidths(_, _)
SumWidths(fields, n) == IF n = 0 THEN 0 ELSE fields[n].width + SumWidths(fields, n - 1)

\* C5: when the compiler has placed every bit-field of a register type, the
\* declared widths (reserved and unnamed padding included) sum to exactly 32,
\* and the fields fill exactly one 32-bit unit: the first free bit is bit 32.
C5_WidthsSumTo32 ==
  RegisterLaidOut =>
    /\ SumWidths(RegisterTypes[unit], idx) = 32
    /\ pos = 32

\* C5 witness: __usbSerialJtag_outEpxStReg_t completely laid out, its five
\* fields of 2 + 7 + 7 + 7 + 9 bits ending at bit 32
C5_Witness ==
  /\ RegisterLaidOut
  /\ unit = "__usbSerialJtag_outEpxStReg_t"
  /\ idx = 5
  /\ pos = 32

\* The bits claim C6 lists for the named fields of PRIORITY
C6_PriorityBits == [ PROC0 |-> 0, PROC1 |-> 4, DMA_R |-> 8, DMA_W |-> 12 ]

\* C6: every bit-field the compiler has placed lies at the sum of the widths
\* declared before it, and that offset is the first bit of the range its
\* comment documents, its width the length of that range; the four named
\* fields of PRIORITY lie at bits 0, 4, 8 and 12 and are one bit wide.
C6_FieldOffsetsDocumented ==
  unit \in DOMAIN RegisterTypes =>
    /\ \A i \in 1 .. idx :
         LET f == RegisterTypes[unit][i]
         IN  /\ offs[i] = SumWidths(RegisterTypes[unit], i - 1)
             /\ f.doc # <<>> =>
                  /\ offs[i] = f.doc[1]
                  /\ f.width = f.doc[2] - f.doc[1] + 1
             /\ (unit = "__busctrl_priority_t" /\ f.name \in DOMAIN C6_PriorityBits) =>
                  /\ offs[i] = C6_PriorityBits[f.name]
                  /\ f.width = 1
    /\ (RegisterLaidOut /\ unit = "__busctrl_priority_t") =>
         \A n \in DOMAIN C6_PriorityBits : FieldIndex(unit, n) \in 1 .. idx
    /\ (unit \in DOMAIN UsbTypes) =>
         \A i \in 1 .. idx : RegisterTypes[unit][i].doc # <<>>

\* C6 witness: OUT_FIFO_EMPTY of __usbSerialJtag_jfifoStReg_t placed at bit 6,
\* after 2 + 1 + 1 + 2 bits
C6_Witness ==
  /\ unit = "__usbSerialJtag_jfifoStReg_t"
  /\ idx >= 5
  /\ RegisterTypes[unit][5].name = "OUT_FIFO_EMPTY"
  /\ offs[5] = 6

\* The named fields among the first n fields of register type t
NamedPlaced(t, n) ==
  { i \in 1 .. n : RegisterTypes[t][i].acc # "RSV" }

\* C7: every named field the compiler has placed has a mask constant, and it
\* equals ((1 << width) - 1) << offset for the field's declared width and
\* its offset in the layout: the constant has exactly the bits offset ..
\* offset + width - 1, and as a number (where it is below 2^31) it is
\* (2^width - 1) * 2^offset.
C7_MaskMatchesDeclaration ==
  unit \in DOMAIN RegisterTypes =>
    \A i \in NamedPlaced(unit, idx) :
      LET f == RegisterTypes[unit][i]
      IN  /\ f.name \in DOMAIN MaskConstants[unit]
          /\ MaskConstants[unit][f.name] = offs[i] .. (offs[i] + f.width - 1)
          /\ offs[i] + f.width <= 31 =>
               ToNat(MaskConstants[unit][f.name]) = (Pow2(f.width) - 1) * Pow2(offs[i])

\* C7 witness: VREFH (2 bits at offset 3) placed, its mask 0x00000018 = 24
C7_Witness ==
  /\ unit = "__usbSerialJtag_conf0Reg_t"
  /\ idx >= 4
  /\ RegisterTypes[unit][4].name = "VREFH"
  /\ offs[4] = 3
  /\ ToNat(MaskConstants[unit]["VREFH"]) = 24

\* C8: no two mask constants of the fields placed so far in a register have
\* a bit in common, and at the end every mask constant of the register
\* belongs to a placed field, so no two of the register's mask constants do.
C8_MasksDisjoint ==
  unit \in DOMAIN RegisterTypes =>
    /\ \A i, j \in NamedPlaced(unit, idx) :
         i # j =>
           MaskConstants[unit][RegisterTypes[unit][i].name]
             \cap MaskConstants[unit][RegisterTypes[unit][j].name] = {}
    /\ RegisterLaidOut =>
         DOMAIN MaskConstants[unit] =
           { RegisterTypes[unit][i].name : i \in NamedPlaced(unit, idx) }

\* C8 witness: the interrupt register type laid out, with its sixteen masks
C8_Witness ==
  /\ unit = "__usbSerialJtag_intStatusReg_t"
  /\ RegisterLaidOut
  /\ Cardinality(DOMAIN MaskConstants[unit]) = 16

\* The OR of all the mask constants defined for register type t
MaskUnion(t) == UNION { MaskConstants[t][n] : n \in DOMAIN MaskConstants[t] }

\* The bits of the reserved and unnamed fields among the first n of type t
ReservedBits(t, n, o) ==
  UNION { o[i] .. (o[i] + RegisterTypes[t][i].width - 1) :
            i \in { k \in 1 .. n : RegisterTypes[t][k].acc = "RSV" } }

\* C9 as claimed: for every register laid out, the OR of all its field mask
\* constants is 0xFFFFFFFF.
C9_MasksCoverWord ==
  RegisterLaidOut => MaskUnion(unit) = Hex(<<15,15,15,15,15,15,15,15>>)

\* C9 as amended: for every register laid out, the OR of all its field mask
\* constants is 0xFFFFFFFF with the bits of the register's reserved and
\* unnamed fields cleared; together with those bits it is 0xFFFFFFFF.
C9_MasksCoverNamedBits ==
  RegisterLaidOut =>
    /\ MaskUnion(unit) = Hex(<<15,15,15,15,15,15,15,15>>) \ ReservedBits(unit, idx, offs)
    /\ MaskUnion(unit) \cup ReservedBits(unit, idx, offs) = BitIdx

\* C9 witness: the interrupt register type laid out: its masks OR to
\* 0x0000FFFF and bits 16-31 are reserved
C9_Witness ==
  /\ unit = "__usbSerialJtag_intStatusReg_t"
  /\ RegisterLaidOut
  /\ MaskUnion(unit) = Hex(<<0,0,0,0,15,15,15,15>>)
  /\ ReservedBits(unit, idx, offs) = 16 .. 31

(***************************************************************************)
(* Properties of the accesses (Spec)                                       *)
(***************************************************************************)

\* The latest access of the run
LastOp == trace[Len(trace)]

\* x | m, x & ~m and x ^ m, bit by bit
BitOr(x, m) == { i \in BitIdx : i \in x \/ i \in m }

BitAndNot(x, m) == { i \in BitIdx : i \in x /\ i \notin m }

BitXor(x, m) == { i \in BitIdx : (i \in x) # (i \in m) }

\* What a write of m through the alias binding b should make of x
AliasResult(b, x, m) ==
  CASE b = "sBUSCTRL_SET" -> BitOr(x, m)
    [] b = "sBUSCTRL_CLR" -> BitAndNot(x, m)
    [] b = "sBUSCTRL_XOR" -> BitXor(x, m)

\* The bus-fabric registers all of whose fields are read/write
ReadWriteRegisters == { "PRIORITY", "PERFSEL0", "PERFSEL1", "PERFSEL2", "PERFSEL3" }

\* The write-to-clear bus-fabric registers
CounterRegisters == { "PERFCTR0", "PERFCTR1", "PERFCTR2", "PERFCTR3" }

\* C3 as claimed: after one write of m through the SET, CLR or XOR alias to
\* a bus-fabric register holding x, the register holds x | m, x & ~m or
\* x ^ m, for every bus-fabric register, every x and every m.
C3_AliasYieldsCombination ==
  (trace # <<>> /\ LastOp.op = "atomic") =>
    Load(mem, AddressOf("sBUSCTRL", focus))
      = AliasResult(LastOp.via, LastOp.before, LastOp.data)

\* C3 as amended: for a read/write bus-fabric register (PRIORITY,
\* PERFSEL0..3) holding x, and every mask m, one write of m through the SET
\* alias leaves the register at (x | m) & F, one through the CLR alias at
\* x & ~m and one through the XOR alias at (x ^ m) & F, as read back through
\* the normal binding, where F is the OR of the register's field masks (the
\* other bits are not implemented and read 0); a write through any of the
\* aliases clears a counter PERFCTR0..3 (write any value to clear) and
\* leaves the read-only PRIORITY_ACK as it was.
C3_AliasCombinesImplementedBits ==
  (trace # <<>> /\ LastOp.op = "atomic") =>
    LET x == LastOp.before
        now == Load(mem, AddressOf("sBUSCTRL", focus))
        implemented == MaskUnion(TypeOf[focus])
    IN  /\ focus \in ReadWriteRegisters =>
             /\ now = AliasResult(LastOp.via, x, LastOp.data) \cap implemented
             /\ LastOp.via = "sBUSCTRL_CLR" => now = BitAndNot(x, LastOp.data)
        /\ focus \in CounterRegisters => now = {}
        /\ focus = "PRIORITY_ACK" => now = x
        /\ focus \in ReadWriteRegisters \cup CounterRegisters \cup { "PRIORITY_ACK" }

\* C3 witness: PRIORITY holds 0x00000101 and 0x80001013 is written through
\* the XOR alias: PRIORITY reads 0x00001110
C3_Witness ==
  /\ focus = "PRIORITY"
  /\ trace # <<>>
  /\ LastOp.op = "atomic"
  /\ LastOp.via = "sBUSCTRL_XOR"
  /\ LastOp.before = Hex(<<0,0,0,0,0,1,0,1>>)
  /\ LastOp.data = Hex(<<8,0,0,0,1,0,1,3>>)
  /\ mem[focus] = Hex(<<0,0,0,0,1,1,1,0>>)

\* C4 as claimed: after two contexts each wrote once to the same bus-fabric
\* register through an alias, the register holds the second update applied
\* to the first update applied to the value before, for every bus-fabric
\* register.
C4_NoLostUpdate ==
  (Len(trace) = 2 /\ trace[1].ctx # trace[2].ctx) =>
    Load(mem, AddressOf("sBUSCTRL", focus))
      = AliasResult(trace[2].via,
                    AliasResult(trace[1].via, trace[1].before, trace[1].data),
                    trace[2].data)

\* C4 as amended: after two contexts each wrote once to the same read/write
\* bus-fabric register (PRIORITY, PERFSEL0..3) through a SET, CLR or XOR
\* alias, in either order, the register holds, in the bits it implements,
\* the second update applied to the first update applied to the value
\* before: neither update is lost.  A counter PERFCTR0..3 reads 0 after the
\* two writes and PRIORITY_ACK reads what it read before them.
C4_NoLostUpdateImplementedBits ==
  (Len(trace) = 2 /\ trace[1].ctx # trace[2].ctx) =>
    LET x == trace[1].before
        now == Load(mem, AddressOf("sBUSCTRL", focus))
        implemented == MaskUnion(TypeOf[focus])
    IN  /\ trace[1].op = "atomic" /\ trace[2].op = "atomic"
        /\ focus \in ReadWriteRegisters =>
             now = AliasResult(trace[2].via,
                               AliasResult(trace[1].via, x, trace[1].data),
                               trace[2].data) \cap implemented
        /\ focus \in CounterRegisters => now = {}
        /\ focus = "PRIORITY_ACK" => now = x

\* C4 witness: PERFSEL0 holds 0x1F; processor 0 writes 0x00000101 through
\* the CLR alias and processor 1 writes 0x80001013 through the XOR alias:
\* PERFSEL0 reads 0x0D
C4_Witness ==
  /\ focus = "PERFSEL0"
  /\ Len(trace) = 2
  /\ trace[1].ctx = "proc0" /\ trace[1].via = "sBUSCTRL_CLR"
  /\ trace[1].before = Hex(<<0,0,0,0,0,0,1,15>>)
  /\ trace[1].data = Hex(<<0,0,0,0,0,1,0,1>>)
  /\ trace[2].ctx = "proc1" /\ trace[2].via = "sBUSCTRL_XOR"
  /\ trace[2].data = Hex(<<8,0,0,0,1,0,1,3>>)
  /\ mem[focus] = Hex(<<0,0,0,0,0,0,0,13>>)

\* The accessor macro of the latest access
LastAccessor == CHOOSE a \in AccessorsOf[focus] : a.macro = LastOp.via

\* v mod 2^width = r, as numbers where both are below 2^31
IsModulo(r, v, width) ==
  IF width <= 30 /\ 31 \notin v
    THEN ToNat(r) = ToNat(v) % Pow2(width)
    ELSE r = { b \in v : b < width }

C11_FieldWriteKeepsOtherBits ==
  (trace # <<>> /\ LastOp.op = "field") =>
    LET t == TypeOf[focus]
        bits == FieldLayout[t][FieldIndex(t, LastOp.field)]
    IN  Load(mem, AddressOf(LastAccessor.binding, focus)) \ bits = LastOp.before \ bits

\* C11 witness: the interrupt RAW register holds 0x00000008 (IN_EMPTY_INT
\* pending at reset); 0 is written to SOF_INT through its accessor and the
\* register reads 0x00000000: the store of the loaded word cleared bit 3
C11_Witness ==
  /\ focus = "intRawReg"
  /\ trace # <<>>
  /\ LastOp.op = "field"
  /\ LastOp.field = "SOF_INT"
  /\ LastOp.data = {}
  /\ LastOp.before = {3}
  /\ mem[focus] = {}

\* C11 restricted to the registers that have no R/WTC/SS field, where a
\* field write does keep every other bit
C11_KeepsOtherBitsOutsideInterrupts ==
  (trace # <<>> /\ LastOp.op = "field"
     /\ \A i \in 1 .. Len(RegisterTypes[TypeOf[focus]]) :
          RegisterTypes[TypeOf[focus]][i].acc # "R/WTC/SS") =>
    LET t == TypeOf[focus]
        bits == FieldLayout[t][FieldIndex(t, LastOp.field)]
    IN  mem[focus] \ bits = LastOp.before \ bits

\* The lowest bit of a mask
LowBit(k) == CHOOSE b \in k : \A c \in k : b <= c

\* (w & k) >> offset of k, for a mask k
Extract(w, k) == { b - LowBit(k) : b \in { c \in BitIdx : c \in w /\ c \in k } }

\* The sum over the first n fields of type t of field value << field offset,
\* for a word below 2^31
RECURSIVE FieldSum(_, _, _)
FieldSum(w, t, n) ==
  IF n = 0 THEN 0
  ELSE ToNat(FieldOf(w, t, n)) * Pow2(LowBit(FieldLayout[t][n])) + FieldSum(w, t, n - 1)

\* WORD read as the fields of the register, each at its offset
FieldsAtOffsets(w, t) ==
  UNION { { b + LowBit(FieldLayout[t][i]) : b \in FieldOf(w, t, i) } :
            i \in 1 .. Len(RegisterTypes[t]) }

NamedFields(t) ==
  { RegisterTypes[t][i].name : i \in NamedPlaced(t, Len(RegisterTypes[t])) }

\* Register r has one r... macro and one b... macro per named field, and
\* each of its macros names a binding, a member of the binding's structure
\* and the word or a field its type declares
AccessorsComplete(r) ==
  LET t == TypeOf[r]
      acc == AccessorsOf[r]
  IN  /\ Cardinality({ a \in acc : a.field = "WORD" }) = 1
      /\ \A f \in NamedFields(t) : Cardinality({ a \in acc : a.field = f }) = 1
      /\ \A a \in acc :
           /\ a.binding \in DOMAIN Bindings
           /\ \E i \in 1 .. Len(ModuleTypes[Bindings[a.binding].type]) :
                ModuleTypes[Bindings[a.binding].type][i].name = a.member
           /\ a.field = "WORD" \/ a.field \in NamedFields(t)

\* C13: the register the run accesses, whichever it is, has one whole-word
\* accessor macro and one bit-field accessor macro per named field, and
\* every accessor macro of it expands to a member of the module structure
\* and to a field name the register's type declares.
C13_EveryRegisterHasAccessors == AccessorsComplete(focus)

\* C13 witness: the run accesses configUpdateReg, whose macro
\* bUSB_SERIAL_JTAG_CONFIG_UPDATE expands to BITS.UPDATE, a name the type
\* (field CONFIG_UPDATE) does not declare, so no field write is possible
C13_Witness ==
  /\ focus = "configUpdateReg"
  /\ steps > 0
  /\ \E a \in AccessorsOf[focus] :
       /\ a.macro = "bUSB_SERIAL_JTAG_CONFIG_UPDATE"
       /\ a.field = "UPDATE"
       /\ FieldIndex(TypeOf[focus], a.field) = 0
  /\ NamedFields(TypeOf[focus]) = { "CONFIG_UPDATE" }

\* C13 restricted to the bus-fabric module, where it holds
C13_BusctrlRegistersHaveAccessors ==
  TypeOf[focus] \in DOMAIN BusctrlTypes => AccessorsComplete(focus)

\* The registers of the USB-Serial-JTAG module whose accessor macros are
\* complete and name declared fields
C13_UsbRegistersWithAccessors ==
  TypeOf[focus] \in DOMAIN UsbTypes =>
    (AccessorsComplete(focus) <=>
       focus \in { "ep1Reg", "ep1ConfReg", "intRawReg", "intStReg", "intEnaReg",
                   "intClrReg", "conf0Reg", "testReg", "jfifoStReg", "framNumReg",
                   "miscConfReg", "memConfReg", "chipRstReg", "getLineCodeW1Reg",
                   "serAfifoConficReg" })

\* The four bindings of the bus-fabric module
BusctrlBindings == { "sBUSCTRL", "sBUSCTRL_XOR", "sBUSCTRL_SET", "sBUSCTRL_CLR" }

\* C14: the bus-fabric bindings are at 0x40030000 (normal), 0x40031000
\* (XOR), 0x40032000 (SET) and 0x40033000 (CLR) and all have the layout type
\* __busctrl_t, so the register the run accesses has the same byte offset
\* under each of the four, and each of the four addresses selects that
\* register; the USB-Serial-JTAG binding is at 0x6000F000.
C14_BindingBases ==
  /\ sBUSCTRL.base = HexVal(<<4,0,0,3,0,0,0,0>>)
  /\ sBUSCTRL_XOR.base = HexVal(<<4,0,0,3,1,0,0,0>>)
  /\ sBUSCTRL_SET.base = HexVal(<<4,0,0,3,2,0,0,0>>)
  /\ sBUSCTRL_CLR.base = HexVal(<<4,0,0,3,3,0,0,0>>)
  /\ sUSB_SERIAL_JTAG.base = HexVal(<<6,0,0,0,15,0,0,0>>)
  /\ \A b \in BusctrlBindings : Bindings[b].type = "__busctrl_t"
  /\ sUSB_SERIAL_JTAG.type = "__usbSerialJtag_t"
  /\ TypeOf[focus] \in DOMAIN BusctrlTypes =>
       \A b \in BusctrlBindings :
         /\ AddressOf(b, focus) - Bindings[b].base
              = AddressOf("sBUSCTRL", focus) - sBUSCTRL.base
         /\ AddressOf(b, focus) - Bindings[b].base
              = HexVal(C2_Offsets[focus])
         /\ AddressOf(b, focus) \in DOMAIN Decoded
         /\ Decoded[AddressOf(b, focus)].reg = focus
  /\ TypeOf[focus] \in DOMAIN UsbTypes =>
       /\ AddressOf("sUSB_SERIAL_JTAG", focus)
            = HexVal(<<6,0,0,0,15,0,0,0>>) + HexVal(C1_Offsets[focus])
       /\ Decoded[AddressOf("sUSB_SERIAL_JTAG", focus)].reg = focus

\* C14 witness: a word written through sBUSCTRL_CLR to PERFSEL3, at address
\* 0x40033024, offset 0x24 as under the normal binding at 0x40030024
C14_Witness ==
  /\ focus = "PERFSEL3"
  /\ trace # <<>>
  /\ LastOp.op = "atomic"
  /\ LastOp.via = "sBUSCTRL_CLR"
  /\ AddressOf(LastOp.via, focus) = HexVal(<<4,0,0,3,3,0,2,4>>)
  /\ AddressOf("sBUSCTRL", focus) = HexVal(<<4,0,0,3,0,0,2,4>>)
  /\ mem[focus] # LastOp.before

\* C15: the reset constant of the interrupt RAW bank is 0x00000008: it has
\* exactly the IN_EMPTY_INT bit (bit 3) set and every other interrupt bit
\* clear; the reset constants of the ST, ENA and CLR banks are 0x00000000;
\* and before the first access the four registers hold these values.
C15_InterruptResetValues ==
  LET t == "__usbSerialJtag_intStatusReg_t"
  IN  /\ ToNat(mUSBSERIALJTAG_INTSTATUSREG_RESET_RAW) = 8
      /\ mUSBSERIALJTAG_INTSTATUSREG_RESET_RAW = {3}
      /\ mUSBSERIALJTAG_INTSTATUSREG_RESET_RAW = MaskConstants[t]["IN_EMPTY_INT"]
      /\ \A n \in DOMAIN MaskConstants[t] :
           n # "IN_EMPTY_INT" =>
             MaskConstants[t][n] \cap mUSBSERIALJTAG_INTSTATUSREG_RESET_RAW = {}
      /\ mUSBSERIALJTAG_INTSTATUSREG_RESET_ST = {}
      /\ mUSBSERIALJTAG_INTSTATUSREG_RESET_ENA = {}
      /\ mUSBSERIALJTAG_INTSTATUSREG_RESET_CLR = {}
      /\ steps = 0 =>
           /\ mem["intRawReg"] = {3}
           /\ FieldOf(mem["intRawReg"], t, FieldIndex(t, "IN_EMPTY_INT")) = {0}
           /\ mem["intStReg"] = {} /\ mem["intEnaReg"] = {} /\ mem["intClrReg"] = {}

\* C15 witness: the run is about to access the RAW register, which holds
\* its reset value with IN_EMPTY_INT reading 1 and SOF_INT reading 0
C15_Witness ==
  /\ focus = "intRawReg"
  /\ steps = 0
  /\ mem[focus] = mUSBSERIALJTAG_INTSTATUSREG_RESET_RAW
  /\ ReadField(mem, CHOOSE a \in AccessorsOf[focus] : a.field = "IN_EMPTY_INT") = {0}
  /\ ReadField(mem, CHOOSE a \in AccessorsOf[focus] : a.field = "SOF_INT") = {}

\* The accessor macro of a name
Macro(n) == CHOOSE a \in BusctrlAccessors \cup UsbAccessors : a.macro = n

\* C16: before the first access a read of PRIORITY returns 0x00000000 and
\* all four masters read kBUSCTRL_LOW_PRIORITY; when the first access is
\* setBUSCTRL_PROC0 (mask 0x00000001 through the SET alias), a read of
\* PRIORITY through the normal binding then returns 0x00000001: PROC0 reads
\* kBUSCTRL_HIGH_PRIORITY and PROC1, DMA_R and DMA_W read
\* kBUSCTRL_LOW_PRIORITY.
C16_SetProc0FromReset ==
  LET word == Load(mem, AddressOf("sBUSCTRL", "PRIORITY"))
      others == { "bBUSCTRL_PROC1", "bBUSCTRL_DMAR", "bBUSCTRL_DMAW" }
  IN  /\ steps = 0 =>
           /\ word = {}
           /\ \A n \in others \cup { "bBUSCTRL_PROC0" } :
                ToNat(ReadField(mem, Macro(n))) = kBUSCTRL_LOW_PRIORITY
      /\ (focus = "PRIORITY" /\ steps = 1 /\ LastOp.field = "setBUSCTRL_PROC0") =>
           /\ LastOp.before = {}
           /\ LastOp.via = "sBUSCTRL_SET"
           /\ ToNat(LastOp.data) = 1
           /\ word = Hex(<<0,0,0,0,0,0,0,1>>)
           /\ ToNat(ReadField(mem, Macro("bBUSCTRL_PROC0"))) = kBUSCTRL_HIGH_PRIORITY
           /\ \A n \in others :
                ToNat(ReadField(mem, Macro(n))) = kBUSCTRL_LOW_PRIORITY

\* C16 witness: setBUSCTRL_PROC0 was the first access and PRIORITY reads
\* 0x00000001
C16_Witness ==
  /\ focus = "PRIORITY"
  /\ steps = 1
  /\ LastOp.op = "atomic"
  /\ LastOp.field = "setBUSCTRL_PROC0"
  /\ LastOp.before = {}
  /\ mem["PRIORITY"] = {0}

\* The registers of the interrupt banks, whose sixteen bits are R/WTC/SS
InterruptRegisters ==
  { r \in Registers : TypeOf[r] = "__usbSerialJtag_intStatusReg_t" }

\* The word a software access puts on the bus: the written word, or for a
\* bit-field assignment the loaded word with the field replaced
StoredWord(rec) ==
  IF rec.op = "field"
  THEN WithField(rec.before, TypeOf[focus],
                 FieldIndex(TypeOf[focus], rec.field), rec.data)
  ELSE rec.data

TriggerBits(t) ==
  UNION { FieldLayout[t][i] :
            i \in { j \in 1 .. Len(RegisterTypes[t]) : RegisterTypes[t][j].acc = "WT" } }

\* An access fires the write-triggered action when the word it stores has
\* a 1 in the WT field
Fires(rec) ==
  /\ rec.op # "event"
  /\ StoredWord(rec) \cap TriggerBits(TypeOf[focus]) # {}

\* The software wrote a 1 to the WT field: a word with the field's bit set,
\* or an assignment to the field's own accessor of a value whose low bit is 1
WroteOne(rec) ==
  \/ rec.op = "word" /\ rec.data \cap TriggerBits(TypeOf[focus]) # {}
  \/ /\ rec.op = "field"
     /\ FieldLayout[TypeOf[focus]][FieldIndex(TypeOf[focus], rec.field)]
          \subseteq TriggerBits(TypeOf[focus])
     /\ 0 \in rec.data

AccessOf(a) ==
  LET t == TypeOf[a.member]
  IN  IF FieldIndex(t, a.field) = 0 THEN "none"
      ELSE RegisterTypes[t][FieldIndex(t, a.field)].acc

\* C20 as claimed: software never assigns through the accessor of a field
\* documented read-only, the interface offering no such write.
C20_NoWriteThroughReadOnlyAccessor ==
  (steps > 0 /\ LastOp.op = "field") => AccessOf(LastAccessor) # "RO"

\* C20 witness: bBUSCTRL_ACK = 1 was executed as a read-modify-write of
\* PRIORITY_ACK, and the register kept its value
C20_Witness ==
  /\ focus = "PRIORITY_ACK"
  /\ steps = 1
  /\ LastOp.op = "field"
  /\ LastOp.via = "bBUSCTRL_ACK"
  /\ LastOp.data = {0}
  /\ AccessOf(LastAccessor) = "RO"
  /\ mem["PRIORITY_ACK"] = LastOp.before

\* What the code does guarantee for read-only fields: no software access,
\* by word, bit-field or alias, changes the value a read-only field holds.
C20_ReadOnlyFieldsKeepHardwareValue ==
  (steps > 0 /\ LastOp.op # "event") =>
    LET t == TypeOf[focus]
    IN  \A i \in 1 .. Len(RegisterTypes[t]) :
          RegisterTypes[t][i].acc = "RO" =>
            FieldOf(mem[focus], t, i) = FieldOf(LastOp.before, t, i)

\* The event-selector registers
SelectorRegisters == { "PERFSEL0", "PERFSEL1", "PERFSEL2", "PERFSEL3" }

\* The value the field written by the last bit-field assignment of a named
\* constant reads now
LastConstantField ==
  FieldOf(mem[focus], TypeOf[focus], FieldIndex(TypeOf[focus], LastOp.field))

\* C21 as claimed: after bBUSCTRL_PERFSELn_VALUE = kBUSCTRL_SEL_<source> the
\* VALUE field holds the constant (it fits in mBUSCTRL_SELECTOR_VALUE) and no
\* other kBUSCTRL_SEL_* constant has that value: every contested and every
\* all-accesses variant of a port has a selector value of its own.
C21_SelectorsDistinctAndFit ==
  (focus \in SelectorRegisters /\ steps > 0 /\ LastOp.op = "const") =>
    /\ LastOp.data \ mBUSCTRL_SELECTOR_VALUE = {}
    /\ LastConstantField = LastOp.data
    /\ \A k \in kBUSCTRL_SEL :
         Word(k.value) = LastConstantField => k.name = LastOp.via

\* C21 witness: PERFSEL0 was set to kBUSCTRL_SEL_ROM and holds 0x12, which is
\* the value of kBUSCTRL_SEL_ROM_CONTESTED as well
C21_Witness ==
  /\ focus = "PERFSEL0"
  /\ steps > 0
  /\ LastOp.op = "const"
  /\ LastOp.via = "kBUSCTRL_SEL_ROM"
  /\ mem["PERFSEL0"] = Hex(<<0,0,0,0,0,0,1,2>>)
  /\ \E k \in kBUSCTRL_SEL :
       k.name = "kBUSCTRL_SEL_ROM_CONTESTED" /\ Word(k.value) = mem["PERFSEL0"]

\* What the constants do guarantee: every selector fits in the 5-bit VALUE
\* field and is stored as written, and the only two constants that share a
\* value are kBUSCTRL_SEL_ROM_CONTESTED and kBUSCTRL_SEL_ROM.
C21_SelectorsFitAndDistinctButRom ==
  (focus \in SelectorRegisters /\ steps > 0 /\ LastOp.op = "const") =>
    /\ LastOp.data \ mBUSCTRL_SELECTOR_VALUE = {}
    /\ LastConstantField = LastOp.data
    /\ \A k \in kBUSCTRL_SEL :
         (Word(k.value) = LastConstantField /\ k.name # LastOp.via) =>
           { k.name, LastOp.via } = { "kBUSCTRL_SEL_ROM_CONTESTED", "kBUSCTRL_SEL_ROM" }

\* The accessors of the focused register whose field has a closed set of
\* named values (the event selectors of PERFSEL N are not such a set)
EnumeratedAccessors ==
  { a \in AccessorsOf[focus] : focus \notin SelectorRegisters /\ ConstantsOf(a) # {} }

\* The named constants of an accessor's field fit in the field's width and
\* are pairwise distinct
FitAndDistinct(a) ==
  /\ \A k \in ConstantsOf(a) : Word(k.value) \subseteq 0 .. (WidthOf(a) - 1)
  /\ \A k1, k2 \in ConstantsOf(a) : k1.value = k2.value => k1.name = k2.name

\* The value the accessor's field holds now has a named constant
HeldValueIsNamed(a) ==
  \E k \in ConstantsOf(a) : Word(k.value) = ReadField(mem, a)

\* C22 as claimed: for PHY_SEL, VREFH, VREFL, PULLUP_VALUE,
\* USB_JTAG_BRIDGE_EN, the four PRIORITY master bits and ACK the named
\* constants fit in the field, are pairwise distinct, and whatever value
\* the field holds is the value of one of them.
C22_ConstantsCoverEveryField ==
  \A a \in EnumeratedAccessors : FitAndDistinct(a) /\ HeldValueIsNamed(a)

\* C22 amended: the named constants of every such field fit in the field
\* and are pairwise distinct, a constant assigned through the accessor is
\* read back unchanged, and for every field but ACK the value the field
\* holds is always the value of one of its constants; ACK has the single
\* constant kBUSCTRL_ACK_OK (1) and its value 0 has no name.
C22_ConstantsCoverAllButAck ==
  /\ \A a \in EnumeratedAccessors :
       /\ FitAndDistinct(a)
       /\ a.field # "ACK" => HeldValueIsNamed(a)
       /\ a.field = "ACK" =>
            (HeldValueIsNamed(a) <=> ToNat(ReadField(mem, a)) = kBUSCTRL_ACK_OK)
  /\ (steps > 0 /\ LastOp.op = "const") => LastConstantField = LastOp.data

\* C22 witness: bUSB_SERIAL_JTAG_CONF0_VREFH = kUSBSERIALJTAG_CONF0REG_VREFH_1V92
\* on CONF0 at reset: VREFH (bits 3-4) reads 2
C22_Witness ==
  /\ focus = "conf0Reg"
  /\ steps = 1
  /\ LastOp.op = "const"
  /\ LastOp.via = "kUSBSERIALJTAG_CONF0REG_VREFH_1V92"
  /\ mem["conf0Reg"] = Hex(<<0,0,0,0,4,2,1,0>>)
  /\ ToNat(ReadField(mem, Macro("bUSB_SERIAL_JTAG_CONF0_VREFH"))) = 2

\* The members of both module structures that are registers: those whose
\* type is a register union (the filler RESERVED_0 is a plain uint32_t array)
RegisterMembers ==
  UNION { { ModuleTypes[t][i].name :
              i \in { k \in 1 .. Len(ModuleTypes[t]) :
                        ModuleTypes[t][k].type \in DOMAIN RegisterTypes } } :
          t \in DOMAIN ModuleTypes }

\* What one bus transaction of the access rec makes of the register it
\* found holding rec.before
Transaction(rec) ==
  LET t == TypeOf[focus]
      sent == CASE rec.op = "word" -> rec.data
                [] rec.op \in { "field", "const" } ->
                     WithField(rec.before, t, FieldIndex(t, rec.field), rec.data)
                [] rec.op = "atomic" -> AliasResult(rec.via, rec.before, rec.data)
  IN  HwWrite(t, rec.before, sent)

\* C23: every register member of __busctrl_t and __usbSerialJtag_t is
\* volatile-qualified, and the accesses of a run reach the hardware one
\* transaction each, in the order they are issued: every step is one
\* access, it finds the register as the access before it left it, it
\* changes no other register, and after a software access the register
\* holds the result of exactly that one transaction.
C23_VolatileProgramOrder ==
  /\ [](/\ RegisterMembers = Registers
        /\ \A t \in DOMAIN ModuleTypes : \A i \in 1 .. Len(ModuleTypes[t]) :
             ModuleTypes[t][i].type \in DOMAIN RegisterTypes => ModuleTypes[t][i].vol
        /\ (steps > 0 /\ LastOp.op # "event") => mem[focus] = Transaction(LastOp))
  /\ [][unit = "idle" =>
          /\ steps' = steps + 1
          /\ trace' # <<>>
          /\ trace'[Len(trace')].before = mem[focus]
          /\ \A r \in DOMAIN mem : r # focus => mem'[r] = mem[r]]_vars

\* C23 witness: three accesses to PRIORITY through sBUSCTRL were made, the
\* last one an assignment of kBUSCTRL_HIGH_PRIORITY to DMA_W that found the
\* register at 0x00000101 and left it at 0x00001101
C23_Witness ==
  /\ focus = "PRIORITY"
  /\ steps = 3
  /\ LastOp.op = "const"
  /\ LastOp.field = "DMA_W"
  /\ LastOp.before = Hex(<<0,0,0,0,0,1,0,1>>)
  /\ mem["PRIORITY"] = Hex(<<0,0,0,0,1,1,0,1>>)

\* What the name of each per-master macro promises: the alias of its prefix
\* and the field of its master
PerMasterMacros ==
  [ xorBUSCTRL_PROC0 |-> <<"sBUSCTRL_XOR", "PROC0">>, xorBUSCTRL_PROC1 |-> <<"sBUSCTRL_XOR", "PROC1">>,
    xorBUSCTRL_DMAR |-> <<"sBUSCTRL_XOR", "DMA_R">>, xorBUSCTRL_DMAW |-> <<"sBUSCTRL_XOR", "DMA_W">>,
    setBUSCTRL_PROC0 |-> <<"sBUSCTRL_SET", "PROC0">>, setBUSCTRL_PROC1 |-> <<"sBUSCTRL_SET", "PROC1">>,
    setBUSCTRL_DMAR |-> <<"sBUSCTRL_SET", "DMA_R">>, setBUSCTRL_DMAW |-> <<"sBUSCTRL_SET", "DMA_W">>,
    clrBUSCTRL_PROC0 |-> <<"sBUSCTRL_CLR", "PROC0">>, clrBUSCTRL_PROC1 |-> <<"sBUSCTRL_CLR", "PROC1">>,
    clrBUSCTRL_DMAR |-> <<"sBUSCTRL_CLR", "DMA_R">>, clrBUSCTRL_DMAW |-> <<"sBUSCTRL_CLR", "DMA_W">> ]

\* The last access was one of the per-master macros
LastIsPerMasterMacro ==
  /\ steps > 0
  /\ LastOp.op = "atomic"
  /\ LastOp.field \in { x.macro : x \in BusctrlAtomicWrites }

\* C24: there are twelve per-master PRIORITY macros; each writes the
\* single-bit mask of its master to PRIORITY through the alias of its
\* prefix, after which that master's bit is toggled (xor), 1 (set) or 0
\* (clr) and every other bit of PRIORITY, the other three masters' and the
\* reserved ones, is what it was before.
C24_MacroTouchesOneMaster ==
  /\ { x.macro : x \in BusctrlAtomicWrites } = DOMAIN PerMasterMacros
  /\ LastIsPerMasterMacro =>
       LET want == PerMasterMacros[LastOp.field]
           bit == FieldLayout["__busctrl_priority_t"][FieldIndex("__busctrl_priority_t", want[2])]
           now == Load(mem, AddressOf("sBUSCTRL", "PRIORITY"))
       IN  /\ focus = "PRIORITY"
           /\ LastOp.via = want[1]
           /\ LastOp.data = bit
           /\ Cardinality(bit) = 1
           /\ now \ bit = LastOp.before \ bit
           /\ CASE want[1] = "sBUSCTRL_XOR" -> (bit \subseteq now) # (bit \subseteq LastOp.before)
                [] want[1] = "sBUSCTRL_SET" -> bit \subseteq now
                [] want[1] = "sBUSCTRL_CLR" -> bit \cap now = {}

\* C24 witness: xorBUSCTRL_DMAR on PRIORITY = 0x00000101 cleared DMA_R and
\* left PROC0 set
C24_Witness ==
  /\ focus = "PRIORITY"
  /\ LastIsPerMasterMacro
  /\ LastOp.field = "xorBUSCTRL_DMAR"
  /\ LastOp.before = Hex(<<0,0,0,0,0,1,0,1>>)
  /\ mem["PRIORITY"] = Hex(<<0,0,0,0,0,0,0,1>>)

\* The four master bits of PRIORITY
MasterBits == Hex(<<0,0,0,0,1,1,1,1>>)

\* Every access of the run so far was a per-master macro
OnlyPerMasterMacros ==
  /\ steps = Len(trace)
  /\ \A n \in 1 .. Len(trace) :
       /\ trace[n].op = "atomic"
       /\ trace[n].field \in DOMAIN PerMasterMacros

\* C25: PRIORITY never has a bit set outside 0x00001111; a per-master macro
\* that finds PRIORITY inside 0x00001111 asks the alias for a word inside
\* 0x00001111, whichever context issues it, so that from the reset value
\* 0x00000000 a run of these macros keeps the reserved bits at 0 by the
\* masks alone and PRIORITY holds exactly the word the macros built.
C25_MacrosStayInMasterBits ==
  focus = "PRIORITY" =>
    /\ mem["PRIORITY"] \ MasterBits = {}
    /\ steps = 0 => mem["PRIORITY"] = {}
    /\ LastIsPerMasterMacro =>
         /\ LastOp.before \ MasterBits = {}
         /\ AliasResult(LastOp.via, LastOp.before, LastOp.data) \ MasterBits = {}
         /\ mem["PRIORITY"] = AliasResult(LastOp.via, LastOp.before, LastOp.data)
    /\ (OnlyPerMasterMacros /\ steps = 2) =>
         /\ trace[1].before = {}
         /\ mem["PRIORITY"] =
              AliasResult(trace[2].via,
                          AliasResult(trace[1].via, {}, trace[1].data), trace[2].data)

\* C25 witness: from reset, processor 0 ran setBUSCTRL_PROC0 and processor 1
\* ran xorBUSCTRL_DMAW; PRIORITY reads 0x00001001
C25_Witness ==
  /\ focus = "PRIORITY"
  /\ steps = 2
  /\ OnlyPerMasterMacros
  /\ trace[1].ctx = "proc0" /\ trace[1].field = "setBUSCTRL_PROC0"
  /\ trace[2].ctx = "proc1" /\ trace[2].field = "xorBUSCTRL_DMAW"
  /\ mem["PRIORITY"] = Hex(<<0,0,0,0,1,0,0,1>>)

\* The last two accesses were alias writes, one after the other
TwoAliasWrites == Len(trace) = 2

\* The register after the same two alias writes issued in the other order
SwappedOrder ==
  LET p == trace[1]
      q == trace[2]
      start == [mem EXCEPT ![focus] = p.before]
  IN  Store(Store(start, AddressOf(q.via, focus), q.data),
            AddressOf(p.via, focus), p.data)[focus]

\* Writing m through alias a and then m through alias b
WroteSameMask(a, b) ==
  /\ trace[1].via = a
  /\ trace[2].via = b
  /\ trace[1].data = trace[2].data

\* A second SET of m changes nothing after the first, and the same for CLR;
\* two alias writes whose masks share no bit give the same final value in
\* either order
IdempotentAndCommuting ==
  /\ (WroteSameMask("sBUSCTRL_SET", "sBUSCTRL_SET") \/ WroteSameMask("sBUSCTRL_CLR", "sBUSCTRL_CLR"))
       => mem[focus] = trace[2].before
  /\ trace[1].data \cap trace[2].data = {} => mem[focus] = SwappedOrder

\* C26 as claimed: for every bus-fabric register, value x and mask m, two
\* XOR writes of m restore x, a second SET or CLR of m changes nothing, SET
\* then CLR of m leaves every bit of m clear and CLR then SET every bit of m
\* set, and two alias writes with disjoint masks commute.
C26_AliasAlgebra ==
  TwoAliasWrites =>
    LET x == trace[1].before
        m == trace[2].data
        now == mem[focus]
    IN  /\ WroteSameMask("sBUSCTRL_XOR", "sBUSCTRL_XOR") => now = x
        /\ WroteSameMask("sBUSCTRL_SET", "sBUSCTRL_CLR") => now \cap m = {}
        /\ WroteSameMask("sBUSCTRL_CLR", "sBUSCTRL_SET") => m \subseteq now
        /\ IdempotentAndCommuting

\* C26 as amended: for every bus-fabric register a second SET or CLR of m
\* changes nothing and alias writes with disjoint masks commute; for a
\* read/write register (PRIORITY, PERFSEL0..3), every value x and every
\* mask m, two XOR writes of m restore x, SET then CLR of m leaves every bit
\* of m clear and CLR then SET leaves every bit of m that the register
\* implements set.
C26_AliasAlgebraOnReadWriteBits ==
  TwoAliasWrites =>
    LET x == trace[1].before
        m == trace[2].data
        now == mem[focus]
    IN  /\ focus \in ReadWriteRegisters =>
             /\ WroteSameMask("sBUSCTRL_XOR", "sBUSCTRL_XOR") => now = x
             /\ WroteSameMask("sBUSCTRL_SET", "sBUSCTRL_CLR") => now \cap m = {}
             /\ WroteSameMask("sBUSCTRL_CLR", "sBUSCTRL_SET") =>
                  now \cap m = m \cap MaskUnion(TypeOf[focus])
        /\ IdempotentAndCommuting

\* C26 witness: PERFSEL0 at its reset value 0x1F took 0x00000101 through the
\* XOR alias twice, read 0x1E in between and reads 0x1F again
C26_Witness ==
  /\ focus = "PERFSEL0"
  /\ steps = 2
  /\ TwoAliasWrites
  /\ WroteSameMask("sBUSCTRL_XOR", "sBUSCTRL_XOR")
  /\ trace[1].data = Hex(<<0,0,0,0,0,1,0,1>>)
  /\ trace[1].before = Hex(<<0,0,0,0,0,0,1,15>>)
  /\ trace[2].before = Hex(<<0,0,0,0,0,0,1,14>>)
  /\ mem["PERFSEL0"] = Hex(<<0,0,0,0,0,0,1,15>>)

\* The last access changed PRIORITY
PriorityChanged == trace # <<>> /\ LastOp.before # mem["PRIORITY"]

\* bBUSCTRL_ACK reads kBUSCTRL_ACK_OK
AckReadsOk == ToNat(ReadField(mem, Macro("bBUSCTRL_ACK"))) = kBUSCTRL_ACK_OK

C27_Pending ==
  /\ arb # <<>>
  /\ PriorityChanged
  /\ \E a \in DOMAIN arb : arb[a] # mem["PRIORITY"]
  /\ ~AckReadsOk

\* 0x00FFFFFF as a number
CounterTop == Pow2(24) - 1

ResetOf(r) == (BusctrlReset @@ UsbReset)[r]

\* The bits of the reserved and unnamed fields of a register type
ReservedOf(t) ==
  UNION { FieldLayout[t][i] :
            i \in { k \in 1 .. Len(RegisterTypes[t]) : RegisterTypes[t][k].acc = "RSV" } }

\* C29: the reset constant of every register has no bit outside the OR of
\* the register's named field masks, so a register initialised from its
\* reset constant has all reserved bits 0; CONF0 resets to DP_PULLUP |
\* USB_PAD_ENABLE, JFIFO_ST to IN_FIFO_EMPTY | OUT_FIFO_EMPTY and PERFSELn
\* inside mBUSCTRL_SELECTOR_VALUE.
C29_ResetInsideFieldMasks ==
  steps = 0 =>
    /\ mem[focus] = ResetOf(focus)
    /\ ResetOf(focus) \ MaskUnion(TypeOf[focus]) = {}
    /\ mem[focus] \cap ReservedOf(TypeOf[focus]) = {}
    /\ focus = "conf0Reg" =>
         mem[focus] = mUSBSERIALJTAG_CONF0REG.DP_PULLUP \cup mUSBSERIALJTAG_CONF0REG.USB_PAD_ENABLE
    /\ focus = "jfifoStReg" =>
         mem[focus] = mUSBSERIALJTAG_JFIFOSTREG.IN_FIFO_EMPTY
                        \cup mUSBSERIALJTAG_JFIFOSTREG.OUT_FIFO_EMPTY
    /\ focus \in SelectorRegisters =>
         /\ mem[focus] = Hex(<<0,0,0,0,0,0,1,15>>)
         /\ mem[focus] \subseteq mBUSCTRL_SELECTOR_VALUE

\* C29 witness: CONF0 initialised from its reset constant reads 0x00004200
C29_Witness ==
  /\ focus = "conf0Reg"
  /\ steps = 0
  /\ mem["conf0Reg"] = Hex(<<0,0,0,0,4,2,0,0>>)
  /\ ReadField(mem, Macro("bUSB_SERIAL_JTAG_CONF0_DP_PULLUP")) = {0}
  /\ ReadField(mem, Macro("bUSB_SERIAL_JTAG_CONF0_USB_PAD_ENABLE")) = {0}

\* C30: in the state taken from the reset constants no write-triggered
\* field of any register holds 1; the EP1 configuration register holds
\* 0x00000002: WR_DONE (bit 0, WT) reads 0, the read-only
\* SERIAL_IN_EP_DATA_FREE (bit 1) reads 1 and it is the only bit set,
\* SERIAL_OUT_EP_DATA_AVAIL reads 0; the config-update register holds 0,
\* CONFIG_UPDATE clear.
C30_NoTriggerSetAtReset ==
  steps = 0 =>
    /\ ResetOf(focus) \cap TriggerBits(TypeOf[focus]) = {}
    /\ mem[focus] \cap TriggerBits(TypeOf[focus]) = {}
    /\ focus = "ep1ConfReg" =>
         /\ mem[focus] = Hex(<<0,0,0,0,0,0,0,2>>)
         /\ ReadField(mem, Macro("bUSB_SERIAL_JTAG_EP1_CONF_WR_DONE")) = {}
         /\ ReadField(mem, Macro("bUSB_SERIAL_JTAG_EP1_CONF_SERIAL_IN_EP_DATA_FREE")) = {0}
         /\ AccessOf(Macro("bUSB_SERIAL_JTAG_EP1_CONF_SERIAL_IN_EP_DATA_FREE")) = "RO"
         /\ AccessOf(Macro("bUSB_SERIAL_JTAG_EP1_CONF_WR_DONE")) = "WT"
         /\ ReadField(mem, Macro("bUSB_SERIAL_JTAG_EP1_CONF_SERIAL_OUT_EP_DATA_AVAIL")) = {}
         /\ mem[focus] = mUSBSERIALJTAG_EP1CONFREG.SERIAL_IN_EP_DATA_FREE
    /\ focus = "configUpdateReg" =>
         /\ mem[focus] = {}
         /\ TriggerBits(TypeOf[focus]) = mUSBSERIALJTAG_CONFIGUPDATEREG.CONFIG_UPDATE

\* C30 witness: the EP1 configuration register in its reset state, the
\* UART TX FIFO reported free and no write done pending
C30_Witness ==
  /\ focus = "ep1ConfReg"
  /\ steps = 0
  /\ trace = <<>>
  /\ mem["ep1ConfReg"] = {1}
  /\ TriggerBits("__usbSerialJtag_ep1ConfReg_t") = {0}

====
